---- MODULE Spec2Model ----
(***************************************************************************)
(* BEPIT Nexus backend (Express): the chat route POST /api/chat/:slug, the *)
(* feedback route and the admin routes, as a state machine over the        *)
(* Supabase tables and the in-memory conversation map.                     *)
(*                                                                         *)
(* A text is a sequence of one-character strings (a literal of a template  *)
(* is one element).  A Supabase call has three outcomes: "ok", "err" (the  *)
(* client resolves to {error}) and "throw" (the awaited promise rejects).  *)
(* In the reply texts the dash U+2014 is written "--" and the bullet        *)
(* U+2022 is written "*".                                                  *)
(***************************************************************************)
EXTENDS Integers, Sequences, FiniteSets, TLC

\* ------------------------------------------------------------------------
\* Text primitives (String.prototype.includes / trim / toLowerCase / NFD)
\* ------------------------------------------------------------------------
Espacos == {" ", "\t", "\n"}

Digitos == <<"0","1","2","3","4","5","6","7","8","9">>

EhDigito(c) == \E i \in 1..Len(Digitos) : Digitos[i] = c

ValorDigito(c) == (CHOOSE i \in 1..Len(Digitos) : Digitos[i] = c) - 1

Maiusculas ==
  << "A","B","C","D","E","F","G","H","I","J","K","L","M","N","O","P","Q","R","S","T","U","V","W","X","Y","Z",
     "Á","À","Â","Ã","É","Ê","Í","Ó","Ô","Õ","Ú","Ç" >>

Minusculas ==
  << "a","b","c","d","e","f","g","h","i","j","k","l","m","n","o","p","q","r","s","t","u","v","w","x","y","z",
     "á","à","â","ã","é","ê","í","ó","ô","õ","ú","ç" >>

\* String.prototype.toLowerCase, one character
MinusculaDe(c) ==
  IF \E i \in 1..Len(Maiusculas) : Maiusculas[i] = c
    THEN Minusculas[CHOOSE i \in 1..Len(Maiusculas) : Maiusculas[i] = c]
    ELSE c

toLowerCase(s) == [i \in 1..Len(s) |-> MinusculaDe(s[i])]

\* normalize("NFD") followed by the removal of the combining marks, one character
SemAcento(c) ==
  CASE c \in {"á","à","â","ã"} -> "a"
    [] c \in {"Á","À","Â","Ã"} -> "A"
    [] c \in {"é","ê"} -> "e"
    [] c \in {"É","Ê"} -> "E"
    [] c = "í" -> "i"
    [] c = "Í" -> "I"
    [] c \in {"ó","ô","õ"} -> "o"
    [] c \in {"Ó","Ô","Õ"} -> "O"
    [] c = "ú" -> "u"
    [] c = "Ú" -> "U"
    [] c = "ç" -> "c"
    [] c = "Ç" -> "C"
    [] OTHER -> c

\* String.prototype.trim
trim(s) ==
  LET naoEsp == {i \in 1..Len(s) : s[i] \notin Espacos}
  IN IF naoEsp = {} THEN <<>>
     ELSE SubSeq(s, CHOOSE i \in naoEsp : \A j \in naoEsp : i <= j,
                    CHOOSE i \in naoEsp : \A j \in naoEsp : i >= j)

\* p occurs in t at position i
OcorreEm(p, t, i) ==
  /\ i + Len(p) - 1 <= Len(t)
  /\ \A k \in 1..Len(p) : t[i + k - 1] = p[k]

\* String.prototype.includes
includes(t, p) == \E i \in 1..(Len(t) - Len(p) + 1) : OcorreEm(p, t, i)

\* Array.prototype.some((p) => t.includes(p)) over a pattern list
AlgumPadrao(t, padroes) == \E k \in 1..Len(padroes) : includes(t, padroes[k])

normalizar(s) == trim([i \in 1..Len(s) |-> MinusculaDe(SemAcento(s[i]))])

\* ------------------------------------------------------------------------
\* detectarIntencao
\* ------------------------------------------------------------------------
padroesRoteiro ==
  << <<"r","o","t","e","i","r","o">>, <<"i","t","i","n","e","r","a","r","i","o">>,
     <<"i","t","i","n","e","r","á","r","i","o">>, <<"p","l","a","n","e","j","a">>,
     <<"p","l","a","n","e","j","a","r">>, <<"p","l","a","n","e","j","a","m","e","n","t","o">>,
     <<"o"," ","q","u","e"," ","f","a","z","e","r">>, <<"x"," ","d","i","a","s">>, <<"1"," ","d","i","a">>,
     <<"2"," ","d","i","a","s">>, <<"3"," ","d","i","a","s">>, <<"4"," ","d","i","a","s">>,
     <<"5"," ","d","i","a","s">>, <<"f","i","m"," ","d","e"," ","s","e","m","a","n","a">>,
     <<"f","i","n","a","l"," ","d","e"," ","s","e","m","a","n","a">>,
     <<"a","g","e","n","d","a"," ","d","o"," ","d","i","a">> >>

padroes_horario ==
  << <<"h","o","r","a","r","i","o">>, <<"h","o","r","á","r","i","o">>, <<"a","b","r","e">>,
     <<"f","e","c","h","a">>, <<"f","u","n","c","i","o","n","a">>,
     <<"f","u","n","c","i","o","n","a","m","e","n","t","o">>, <<"q","u","e"," ","h","o","r","a","s">> >>

padroes_endereco ==
  << <<"e","n","d","e","r","e","c","o">>, <<"e","n","d","e","r","e","ç","o">>,
     <<"o","n","d","e"," ","f","i","c","a">>, <<"l","o","c","a","l","i","z","a","c","a","o">>,
     <<"l","o","c","a","l","i","z","a","ç","ã","o">>, <<"c","o","m","o"," ","c","h","e","g","a","r">> >>

padroes_contato ==
  << <<"c","o","n","t","a","t","o">>, <<"t","e","l","e","f","o","n","e">>,
     <<"w","h","a","t","s","a","p","p">>, <<"w","h","a","t","s">>, <<"l","i","g","a","r">> >>

padroes_fotos ==
  << <<"f","o","t","o">>, <<"f","o","t","o","s">>, <<"i","m","a","g","e","m">>,
     <<"i","m","a","g","e","n","s">>, <<"g","a","l","e","r","i","a">> >>

padroes_preco ==
  << <<"p","r","e","c","o">>, <<"p","r","e","ç","o">>,
     <<"f","a","i","x","a"," ","d","e"," ","p","r","e","c","o">>,
     <<"f","a","i","x","a"," ","d","e"," ","p","r","e","ç","o">>, <<"c","a","r","o">>,
     <<"b","a","r","a","t","o">>, <<"v","a","l","o","r">>,
     <<"q","u","a","n","t","o"," ","c","u","s","t","a">> >>

mapaIntencoes ==
  << [intencao |-> "horario", padroes |-> padroes_horario],
     [intencao |-> "endereco", padroes |-> padroes_endereco],
     [intencao |-> "contato", padroes |-> padroes_contato],
     [intencao |-> "fotos", padroes |-> padroes_fotos],
     [intencao |-> "preco", padroes |-> padroes_preco] >>

dicasGatilhos ==
  << <<"t","r","a","n","s","i","t","o">>, <<"t","r","â","n","s","i","t","o">>,
     <<"e","n","g","a","r","r","a","f","a","m","e","n","t","o">>,
     <<"r","o","t","a"," ","a","l","t","e","r","n","a","t","i","v","a">>, <<"d","e","s","v","i","o">>,
     <<"p","a","d","a","r","i","a">>, <<"c","a","f","e"," ","d","a"," ","m","a","n","h","a">>,
     <<"c","a","f","é"," ","d","a"," ","m","a","n","h","ã">>, <<"c","a","f","e">>, <<"c","a","f","é">>,
     <<"h","o","r","a","r","i","o"," ","b","o","m">>,
     <<"m","e","l","h","o","r"," ","h","o","r","a","r","i","o">>,
     <<"m","e","l","h","o","r"," ","h","o","r","á","r","i","o">>,
     <<"e","s","t","a","c","i","o","n","a","m","e","n","t","o">>, <<"s","e","g","u","r","a","n","c","a">>,
     <<"s","e","g","u","r","a","n","ç","a">>, <<"e","v","i","t","a","r">>, <<"l","o","t","a","d","o">>,
     <<"l","o","t","a","ç","ã","o">> >>

\* a label that looks for the tip triggers before the detail patterns
detectarIntencaoDicaPrimeiro(texto) ==
  LET t == normalizar(texto)
      achados == {k \in 1..Len(mapaIntencoes) : AlgumPadrao(t, mapaIntencoes[k].padroes)}
  IN IF AlgumPadrao(t, padroesRoteiro) THEN "roteiro"
     ELSE IF AlgumPadrao(t, dicasGatilhos) THEN "dica"
     ELSE IF achados # {}
       THEN mapaIntencoes[CHOOSE k \in achados : \A j \in achados : k <= j].intencao
     ELSE "nenhuma"

detectarIntencao(texto) ==
  LET t == normalizar(texto)
      achados == {k \in 1..Len(mapaIntencoes) : AlgumPadrao(t, mapaIntencoes[k].padroes)}
  IN IF AlgumPadrao(t, padroesRoteiro) THEN "roteiro"
     ELSE IF achados # {}
       THEN mapaIntencoes[CHOOSE k \in achados : \A j \in achados : k <= j].intencao
     ELSE IF AlgumPadrao(t, dicasGatilhos) THEN "dica"
     ELSE "nenhuma"

IntencoesDeDetalhe == {"horario", "endereco", "contato", "fotos", "preco"}

\* ------------------------------------------------------------------------
\* extrairIndiceEscolhido (null is SemIndice)
\* ------------------------------------------------------------------------
SemIndice == -1

mapaOrdinal ==
  << [chave |-> <<"1">>, idx |-> 0],
     [chave |-> <<"u","m">>, idx |-> 0],
     [chave |-> <<"u","m","a">>, idx |-> 0],
     [chave |-> <<"p","r","i","m","e","i","r","o">>, idx |-> 0],
     [chave |-> <<"1","º">>, idx |-> 0],
     [chave |-> <<"1","o">>, idx |-> 0],
     [chave |-> <<"o","p","c","a","o"," ","1">>, idx |-> 0],
     [chave |-> <<"o","p","ç","ã","o"," ","1">>, idx |-> 0],
     [chave |-> <<"2">>, idx |-> 1],
     [chave |-> <<"d","o","i","s">>, idx |-> 1],
     [chave |-> <<"d","u","a","s">>, idx |-> 1],
     [chave |-> <<"s","e","g","u","n","d","o">>, idx |-> 1],
     [chave |-> <<"2","º">>, idx |-> 1],
     [chave |-> <<"2","o">>, idx |-> 1],
     [chave |-> <<"o","p","c","a","o"," ","2">>, idx |-> 1],
     [chave |-> <<"o","p","ç","ã","o"," ","2">>, idx |-> 1],
     [chave |-> <<"3">>, idx |-> 2],
     [chave |-> <<"t","r","e","s">>, idx |-> 2],
     [chave |-> <<"t","r","ê","s">>, idx |-> 2],
     [chave |-> <<"t","e","r","c","e","i","r","o">>, idx |-> 2],
     [chave |-> <<"3","º">>, idx |-> 2],
     [chave |-> <<"3","o">>, idx |-> 2],
     [chave |-> <<"o","p","c","a","o"," ","3">>, idx |-> 2],
     [chave |-> <<"o","p","ç","ã","o"," ","3">>, idx |-> 2],
     [chave |-> <<"4">>, idx |-> 3],
     [chave |-> <<"q","u","a","t","r","o">>, idx |-> 3],
     [chave |-> <<"q","u","a","r","t","o">>, idx |-> 3],
     [chave |-> <<"4","º">>, idx |-> 3],
     [chave |-> <<"4","o">>, idx |-> 3],
     [chave |-> <<"5">>, idx |-> 4],
     [chave |-> <<"c","i","n","c","o">>, idx |-> 4],
     [chave |-> <<"q","u","i","n","t","o">>, idx |-> 4],
     [chave |-> <<"5","º">>, idx |-> 4],
     [chave |-> <<"5","o">>, idx |-> 4] >>

\* the alternatives of (op[cç][aã]o|opcao|opção|numero|n[uú]mero|n[ºo]|#)
marcadoresM1 ==
  << <<"o","p","c","a","o">>, <<"o","p","ç","a","o">>, <<"o","p","c","ã","o">>, <<"o","p","ç","ã","o">>,
     <<"o","p","c","a","o">>, <<"o","p","ç","ã","o">>, <<"n","u","m","e","r","o">>,
     <<"n","u","m","e","r","o">>, <<"n","ú","m","e","r","o">>, <<"n","º">>, <<"n","o">>, <<"#">> >>

\* first position at or after i that holds no whitespace (\s*)
PulaEspacos(t, i) ==
  LET livres == {j \in i..(Len(t) + 1) : j = Len(t) + 1 \/ t[j] \notin Espacos}
  IN CHOOSE j \in livres : \A k \in livres : j <= k

\* parseInt of the (\d{1,2}) that starts at j, greedy
DoisDigitos(t, j) ==
  IF j + 1 <= Len(t) /\ EhDigito(t[j + 1])
    THEN 10 * ValorDigito(t[j]) + ValorDigito(t[j + 1])
    ELSE ValorDigito(t[j])

\* marker, \s*, digit: the marker alternative k matches at i
CasaM1(t, i, k) ==
  /\ OcorreEm(marcadoresM1[k], t, i)
  /\ LET j == PulaEspacos(t, i + Len(marcadoresM1[k]))
     IN j <= Len(t) /\ EhDigito(t[j])

\* the number captured by the leftmost match of m1, or SemIndice
NumeroM1(t) ==
  LET pos == {i \in 1..Len(t) : \E k \in 1..Len(marcadoresM1) : CasaM1(t, i, k)}
  IN IF pos = {} THEN SemIndice
     ELSE LET i == CHOOSE x \in pos : \A y \in pos : x <= y
              ks == {k \in 1..Len(marcadoresM1) : CasaM1(t, i, k)}
              k == CHOOSE x \in ks : \A y \in ks : x <= y
          IN DoisDigitos(t, PulaEspacos(t, i + Len(marcadoresM1[k])))

\* (^|\s)(\d{1,2})(\s|$) with the digits starting at j: their number of digits, or 0
DigitosM2(t, j) ==
  IF ~(j <= Len(t) /\ EhDigito(t[j]) /\ (j = 1 \/ t[j - 1] \in Espacos)) THEN 0
  ELSE IF j + 1 <= Len(t) /\ EhDigito(t[j + 1]) /\ (j + 2 > Len(t) \/ t[j + 2] \in Espacos) THEN 2
  ELSE IF j + 1 > Len(t) \/ t[j + 1] \in Espacos THEN 1
  ELSE 0

\* the number captured by the leftmost match of m2, or SemIndice
NumeroM2(t) ==
  LET pos == {j \in 1..Len(t) : DigitosM2(t, j) > 0}
  IN IF pos = {} THEN SemIndice
     ELSE LET j == CHOOSE x \in pos : \A y \in pos : x <= y
          IN IF DigitosM2(t, j) = 2 THEN 10 * ValorDigito(t[j]) + ValorDigito(t[j + 1])
             ELSE ValorDigito(t[j])

\* for (const [chave, idx] of mapaOrdinal.entries()) if (t.includes(chave)) return idx
IndiceOrdinal(t) ==
  LET ks == {k \in 1..Len(mapaOrdinal) : includes(t, mapaOrdinal[k].chave)}
  IN IF ks = {} THEN SemIndice
     ELSE mapaOrdinal[CHOOSE k \in ks : \A j \in ks : k <= j].idx

extrairIndiceEscolhido(texto) ==
  LET t == normalizar(texto)
      n1 == NumeroM1(t)
      n2 == NumeroM2(t)
  IN IF n1 # SemIndice /\ n1 - 1 >= 0 THEN n1 - 1
     ELSE IF n2 # SemIndice /\ n2 - 1 >= 0 THEN n2 - 1
     ELSE IndiceOrdinal(t)


\* ------------------------------------------------------------------------
\* Values
\* ------------------------------------------------------------------------
\* null / undefined of a text field
NULO == <<"<null>">>

\* JavaScript falsiness of a text field (null, undefined, "")
Falsy(v) == v = NULO \/ v = <<>>

\* v || d
OuPadrao(v, d) == IF Falsy(v) THEN d ELSE v

\* null / undefined where an array is expected
ArrNulo == <<NULO>>

isArray(a) == a # ArrNulo

\* Array.isArray(a) ? a : []
ArrayOuVazio(a) == IF isArray(a) THEN a ELSE <<>>

\* an optional item is <<>> (null) or <<item>>
SemFoco == <<>>

\* Array.prototype.join
RECURSIVE join(_, _)
join(partes, sep) ==
  IF Len(partes) = 0 THEN <<>>
  ELSE IF Len(partes) = 1 THEN partes[1]
  ELSE partes[1] \o sep \o join(Tail(partes), sep)

\* Array.prototype.slice(0, n)
slice(s, n) == SubSeq(s, 1, IF Len(s) < n THEN Len(s) ELSE n)

\* ------------------------------------------------------------------------
\* The initial tables regioes and cidades (rows in table order)
\* ------------------------------------------------------------------------
RegioesIniciais ==
  << [id |-> 1, nome |-> <<"L","a","g","o","s">>, slug |-> <<"l","a","g","o","s">>, ativo |-> TRUE],
     [id |-> 2, nome |-> <<"S","e","r","r","a">>, slug |-> <<"s","e","r","r","a">>, ativo |-> TRUE] >>

CidadesIniciais ==
  << [id |-> 1, regiao_id |-> 1, nome |-> <<"B","ú","z","i","o","s">>, slug |-> <<"b","u","z","i","o","s">>, ativo |-> TRUE],
     [id |-> 2, regiao_id |-> 1, nome |-> <<"C","a","b","o"," ","F","r","i","o">>, slug |-> <<"c","a","b","o","-","f","r","i","o">>, ativo |-> TRUE],
     [id |-> 3, regiao_id |-> 2, nome |-> <<"I","t","a","i","p","a","v","a">>, slug |-> <<"i","t","a","i","p","a","v","a">>, ativo |-> TRUE] >>

\* the slugs a request may carry in its path (the last one is no region)
Slugs == {<<"l","a","g","o","s">>, <<"n","a","d","a">>}

\* ------------------------------------------------------------------------
\* The initial table parceiros
\* ------------------------------------------------------------------------
ParceirosIniciais ==
  << [id |-> 1, tipo |-> <<"P","A","R","C","E","I","R","O">>, nome |-> <<"S","o","l">>, categoria |-> <<"p","i","z","z","a","r","i","a">>,
      descricao |-> NULO, beneficio_bepit |-> <<"1","0","%">>, endereco |-> <<"R","u","a"," ","A">>,
      contato |-> NULO, tags |-> <<>>, horario_funcionamento |-> <<"9","h","-","1","8","h">>,
      faixa_preco |-> <<"$","$">>, fotos_parceiros |-> <<<<"u","1">>>>, cidade_id |-> 1, ativo |-> TRUE],
     [id |-> 2, tipo |-> <<"P","A","R","C","E","I","R","O">>, nome |-> <<"M","a","r">>, categoria |-> <<"B","a","r">>,
      descricao |-> NULO, beneficio_bepit |-> NULO, endereco |-> <<>>,
      contato |-> <<"2","2"," ","9">>, tags |-> <<>>, horario_funcionamento |-> NULO,
      faixa_preco |-> NULO, fotos_parceiros |-> ArrNulo, cidade_id |-> 2, ativo |-> TRUE],
     [id |-> 3, tipo |-> <<"D","I","C","A">>, nome |-> <<"P","a","o">>, categoria |-> NULO,
      descricao |-> <<"p","a","d","a","r","i","a"," ","c","e","d","o">>, beneficio_bepit |-> NULO, endereco |-> NULO,
      contato |-> NULO, tags |-> <<<<"c","a","f","e">>>>, horario_funcionamento |-> NULO,
      faixa_preco |-> NULO, fotos_parceiros |-> <<>>, cidade_id |-> 1, ativo |-> TRUE],
     [id |-> 4, tipo |-> <<"P","A","R","C","E","I","R","O">>, nome |-> <<"V","a","l","e">>, categoria |-> <<"p","o","u","s","a","d","a">>,
      descricao |-> NULO, beneficio_bepit |-> NULO, endereco |-> <<"R","u","a"," ","B">>,
      contato |-> NULO, tags |-> <<>>, horario_funcionamento |-> <<"2","4","h">>,
      faixa_preco |-> NULO, fotos_parceiros |-> <<<<"u","4">>>>, cidade_id |-> 3, ativo |-> TRUE],
     [id |-> 5, tipo |-> <<"P","A","R","C","E","I","R","O">>, nome |-> <<"R","i","o">>, categoria |-> <<"b","a","r">>,
      descricao |-> NULO, beneficio_bepit |-> NULO, endereco |-> NULO,
      contato |-> NULO, tags |-> <<>>, horario_funcionamento |-> NULO,
      faixa_preco |-> NULO, fotos_parceiros |-> ArrNulo, cidade_id |-> 1, ativo |-> FALSE] >>

\* ------------------------------------------------------------------------
\* The request bodies of POST /api/chat
\* ------------------------------------------------------------------------
\* body.message: absent, not a string, or a string
MsgAusente == [tipo |-> "undefined", valor |-> <<>>]

MsgNumero == [tipo |-> "number", valor |-> <<"7">>]

Texto(s) == [tipo |-> "string", valor |-> s]

Mensagens ==
  { MsgAusente, MsgNumero, Texto(<<>>), Texto(<<" "," ">>),
    Texto(<<"2">>), Texto(<<"9">>), Texto(<<"Q","u","a","l"," ","o"," ","h","o","r","á","r","i","o","?">>), Texto(<<"o","n","d","e"," ","f","i","c","a","?">>),
    Texto(<<"w","h","a","t","s","a","p","p">>), Texto(<<"f","o","t","o","s">>), Texto(<<"é"," ","c","a","r","o","?">>),
    Texto(<<"r","o","t","e","i","r","o">>), Texto(<<"p","i","z","z","a"," ","e","m"," ","B","ú","z","i","o","s">>), Texto(<<"c","a","f","é">>) }

\* ------------------------------------------------------------------------
\* Bounds
\* ------------------------------------------------------------------------
\* requests received in a run
MaxTurnos == 2

\* requests received in a run with overlapping requests
MaxTurnosJuntos == 3

\* Supabase calls that fail in a run
MaxFalhas == 2

\* concurrent invocations of a handler
Reqs == {"r1", "r2"}

\* the invocation that serves the requests that arrive one after the other
UmPorVez == {"r1"}

\* the outcomes of one awaited Supabase call
Resultados(f) == IF f < MaxFalhas THEN {"ok", "err", "throw"} ELSE {"ok"}

VARIABLES
  disableGemini,     \* DISABLE_GEMINI
  adminApiKey,       \* process.env.ADMIN_API_KEY
  revisao,           \* the revision of the server that is running
  regioes,           \* table regioes
  cidades,           \* table cidades
  parceiros,         \* table parceiros
  conversas,         \* table conversas, by id
  memoriaConversas,  \* the Map memoriaConversas, by id
  interacoes,        \* table interacoes (the id of a row is its position)
  parceiro_views,    \* table parceiro_views
  buscas_texto,      \* table buscas_texto
  eventos_analytics, \* table eventos_analytics (rows in order of insertion)
  req,               \* the invocations of the chat handler
  fb,                \* the invocation of the feedback handler
  adm,               \* the invocation of an admin handler
  fn,                \* the call of a helper function on its own
  GEMINI_MODEL_RESOLVED, \* the model name that worked first (part_003)
  geracoes,          \* the calls of geminiGenerateWithFallback in flight
  proxConv,          \* the next value of randomUUID()
  turnos,            \* requests received so far
  falhas             \* Supabase calls that failed so far

vars ==
  << disableGemini, adminApiKey, revisao, regioes, cidades, parceiros, conversas,
     memoriaConversas, interacoes, parceiro_views, buscas_texto, eventos_analytics,
     req, fb, adm, fn, GEMINI_MODEL_RESOLVED, geracoes, proxConv, turnos, falhas >>

\* the ids randomUUID() hands out in a run
ConvIds == 1..(IF MaxTurnos > MaxTurnosJuntos THEN MaxTurnos ELSE MaxTurnosJuntos)

\* ------------------------------------------------------------------------
\* memoriaConversas
\* ------------------------------------------------------------------------
ConversaVazia == [parceiro_em_foco |-> SemFoco, parceiros_sugeridos |-> <<>>]

\* a row of conversas or an entry of memoriaConversas that does not exist
Ausente == [existe |-> FALSE, parceiro_em_foco |-> SemFoco, parceiros_sugeridos |-> <<>>]

carregarConversaMem(mem, conversationId) ==
  IF mem[conversationId].existe
    THEN [parceiro_em_foco |-> mem[conversationId].parceiro_em_foco,
          parceiros_sugeridos |-> mem[conversationId].parceiros_sugeridos]
    ELSE ConversaVazia

\* payload.parceiro_em_foco ?? atual.parceiro_em_foco
FocoOuAtual(novo, atual) == IF novo = SemFoco THEN atual ELSE novo

\* a payload: temSugeridos says whether the key parceiros_sugeridos is an array
salvarConversaMem(mem, conversationId, payload) ==
  LET atual == carregarConversaMem(mem, conversationId)
  IN [mem EXCEPT ![conversationId] =
        [existe |-> TRUE,
         parceiro_em_foco |-> FocoOuAtual(payload.parceiro_em_foco, atual.parceiro_em_foco),
         parceiros_sugeridos |->
           IF payload.temSugeridos THEN payload.parceiros_sugeridos
           ELSE atual.parceiros_sugeridos]]

\* supabase.from("conversas").update(payload).eq("id", conversationId): the rows
\* that match are changed, and there may be none
AtualizarLinhaConversa(tab, conversationId, payload) ==
  IF tab[conversationId].existe
    THEN [tab EXCEPT ![conversationId] =
            [existe |-> TRUE,
             parceiro_em_foco |-> payload.parceiro_em_foco,
             parceiros_sugeridos |->
               IF payload.temSugeridos THEN payload.parceiros_sugeridos
               ELSE tab[conversationId].parceiros_sugeridos]]
    ELSE tab

\* ------------------------------------------------------------------------
\* Reply texts
\* ------------------------------------------------------------------------
resumoDoParceiro(parceiro) ==
  IF parceiro = SemFoco THEN <<"Não encontrei esse parceiro.">>
  ELSE LET p == parceiro[1]
           nom == OuPadrao(p.nome, <<"--">>)
           cat == OuPadrao(p.categoria, <<"categoria não informada">>)
           benef == IF Falsy(p.beneficio_bepit) THEN <<>>
                    ELSE <<" -- Benefício BEPIT: ">> \o p.beneficio_bepit
           preco == IF Falsy(p.faixa_preco) THEN <<>>
                    ELSE <<" -- Faixa de preço: ">> \o p.faixa_preco
       IN <<"Sobre **">> \o nom \o <<"** (">> \o cat \o <<")">> \o benef \o preco
            \o <<". Quer **endereço**, **horário**, **contato/WhatsApp**, **faixa de preço** ou **fotos**?">>

\* the stored field a detail intent answers from (fotos answers from no text field)
CampoDaIntencao(p, intencao) ==
  CASE intencao = "horario" -> p.horario_funcionamento
    [] intencao = "endereco" -> p.endereco
    [] intencao = "contato" -> p.contato
    [] intencao = "preco" -> p.faixa_preco
    [] OTHER -> NULO

RotuloDaIntencao(intencao) ==
  CASE intencao = "horario" -> <<"Horário de ">>
    [] intencao = "endereco" -> <<"Endereço de ">>
    [] intencao = "contato" -> <<"Contato de ">>
    [] intencao = "preco" -> <<"Faixa de preço de ">>
    [] OTHER -> <<>>

NaoInformado(intencao) ==
  CASE intencao = "horario" -> <<"O parceiro não informou horário de funcionamento.">>
    [] intencao = "endereco" -> <<"Endereço não informado.">>
    [] intencao = "contato" -> <<"Contato não informado.">>
    [] intencao = "preco" -> <<"Faixa de preço não informada.">>
    [] OTHER -> <<>>

possuiFotos(p) == isArray(p.fotos_parceiros) /\ Len(p.fotos_parceiros) > 0

\* a reply that names the item and never quotes what is stored about it
respostaSemCampo(p, intencao) ==
  IF intencao = "fotos" THEN <<"Não encontrei fotos de ">> \o p.nome \o <<".">>
  ELSE RotuloDaIntencao(intencao) \o p.nome \o <<": ">> \o NaoInformado(intencao)

\* respostaDireta of the five follow-up branches
respostaDireta(p, intencao) ==
  IF intencao = "fotos"
    THEN IF possuiFotos(p) THEN <<"Aqui estão algumas fotos de ">> \o p.nome \o <<".">>
         ELSE <<"Não encontrei fotos de ">> \o p.nome \o <<".">>
    ELSE RotuloDaIntencao(intencao) \o p.nome \o <<": ">>
           \o (IF Falsy(CampoDaIntencao(p, intencao)) THEN NaoInformado(intencao)
               ELSE CampoDaIntencao(p, intencao))

\* photoLinks of the five follow-up branches
fotosDoFollowUp(p, intencao) ==
  IF intencao = "fotos" THEN (IF possuiFotos(p) THEN p.fotos_parceiros ELSE <<>>)
  ELSE ArrayOuVazio(p.fotos_parceiros)

\* ------------------------------------------------------------------------
\* Pure steps of the chat handler
\* ------------------------------------------------------------------------
\* a validation that forgets to trim
MensagemSemTexto(m) == m.tipo # "string" \/ Len(m.valor) = 0

\* !textoDoUsuario || typeof textoDoUsuario !== "string" || !textoDoUsuario.trim()
MensagemInvalida(m) == m.tipo # "string" \/ Len(m.valor) = 0 \/ Len(trim(m.valor)) = 0

\* for (const c of cidades) if (texto.includes(nome) || texto.includes(slug)) { ...; break }
cidadePeloTexto(textoMinusculo, cids) ==
  LET ks == {k \in 1..Len(cids) :
               \/ includes(textoMinusculo, toLowerCase(cids[k].nome))
               \/ includes(textoMinusculo, toLowerCase(cids[k].slug))}
  IN IF ks = {} THEN 0 ELSE cids[CHOOSE k \in ks : \A j \in ks : k <= j].id

\* (cidades || []).find((c) => c.slug === slug), as an id (0: none)
cidadePorSlug(cids, slug) ==
  LET ks == {k \in 1..Len(cids) : cids[k].slug = slug}
  IN IF ks = {} THEN 0 ELSE cids[CHOOSE k \in ks : \A j \in ks : k <= j].id

CidadePorId(id) == cidades[CHOOSE k \in 1..Len(cidades) : cidades[k].id = id]

\* the return value of analisarEntradaUsuario on its catch path
AnaliseVazia(texto) ==
  [corrigido |-> texto, companhia |-> NULO, vibe |-> NULO, orcamento |-> NULO,
   cidadeSlugSugerida |-> NULO, palavrasChave |-> <<>>]

\* the DISABLE_GEMINI branch of analisarEntradaUsuario
analisarSemGemini(texto, cids) ==
  LET id == cidadePeloTexto(toLowerCase(texto), cids)
  IN [AnaliseVazia(texto) EXCEPT
        !.cidadeSlugSugerida = IF id = 0 THEN NULO ELSE CidadePorId(id).slug]

\* v ?? d
OuNulo(v, d) == IF v = NULO THEN d ELSE v

\* the return value of analisarEntradaUsuario for a parsed JSON object
analiseDoJson(parsed, texto) ==
  [corrigido |-> OuNulo(parsed.corrigido, texto),
   companhia |-> parsed.companhia,
   vibe |-> parsed.vibe,
   orcamento |-> parsed.orcamento,
   cidadeSlugSugerida |-> parsed.cidadeSlugSugerida,
   palavrasChave |-> ArrayOuVazio(parsed.palavrasChave)]

JsonVazio ==
  [corrigido |-> NULO, companhia |-> NULO, vibe |-> NULO, orcamento |-> NULO,
   cidadeSlugSugerida |-> NULO, palavrasChave |-> ArrNulo]

\* what the model answers to the analysis prompt: a rejected call, text that
\* JSON.parse rejects, or a JSON object
SaidasDaAnalise ==
  { [tipo |-> "falha", json |-> JsonVazio],
    [tipo |-> "invalido", json |-> JsonVazio],
    [tipo |-> "json", json |-> JsonVazio],
    [tipo |-> "json", json |-> [JsonVazio EXCEPT !.vibe = <<"a","g","i","t","a","d","o">>, !.companhia = <<"a","m","i","g","o","s">>,
                                                  !.cidadeSlugSugerida = <<"c","a","b","o","-","f","r","i","o">>,
                                                  !.palavrasChave = <<<<"b","a","r">>>>]] }

analisarComGemini(saida, texto) ==
  IF saida.tipo = "json" THEN analiseDoJson(saida.json, texto) ELSE AnaliseVazia(texto)

\* reforcos: the search terms of a profile
termosDoPerfil(vibe) ==
  CASE vibe = <<"r","o","m","a","n","t","i","c","o">> -> <<<<"r","o","m","a","n","t","i","c","o">>, <<"c","a","s","a","l">>>>
    [] vibe = <<"a","v","e","n","t","u","r","a">> -> <<<<"t","r","i","l","h","a">>, <<"m","e","r","g","u","l","h","o">>>>
    [] vibe = <<"t","r","a","n","q","u","i","l","o">> -> <<<<"t","r","a","n","q","u","i","l","o">>, <<"c","a","l","m","o">>>>
    [] vibe = <<"a","g","i","t","a","d","o">> -> <<<<"b","a","l","a","d","a">>, <<"b","a","r">>>>
    [] OTHER -> <<>>

\* column.ilike.*t*
ilike(campo, t) == campo # NULO /\ includes(toLowerCase(campo), toLowerCase(t))

\* cidadeDetectada ? [cidadeDetectada.id] : cidades.map((c) => c.id)
cidadeIdsDe(cidadeDetectada, cids) ==
  IF cidadeDetectada # 0 THEN {cidadeDetectada} ELSE {cids[k].id : k \in 1..Len(cids)}

\* the item query without .eq("ativo", true)
consultarItensSemAtivo(tab, cidadeIds, termos) ==
  SelectSeq(tab, LAMBDA p :
    /\ p.cidade_id \in cidadeIds
    /\ \/ Len(termos) = 0
       \/ \E k \in 1..Len(termos) : ilike(p.nome, termos[k]) \/ ilike(p.categoria, termos[k]))

\* the rows of select ... .eq("ativo", true).in("cidade_id", cidadeIds)[.or(...ilike...)]
consultarItens(tab, cidadeIds, termos) ==
  SelectSeq(tab, LAMBDA p :
    /\ p.ativo
    /\ p.cidade_id \in cidadeIds
    /\ \/ Len(termos) = 0
       \/ \E k \in 1..Len(termos) : ilike(p.nome, termos[k]) \/ ilike(p.categoria, termos[k]))

\* the keywords of the DICA filter
chavesDeDica ==
  << <<"t","r","a","n","s","i","t","o">>, <<"t","r","â","n","s","i","t","o">>, <<"e","n","g","a","r","r","a","f","a","m","e","n","t","o">>, <<"d","e","s","v","i","o">>, <<"r","o","t","a"," ","a","l","t","e","r","n","a","t","i","v","a">>,
     <<"p","a","d","a","r","i","a">>, <<"c","a","f","e"," ","d","a"," ","m","a","n","h","a">>, <<"c","a","f","é"," ","d","a"," ","m","a","n","h","ã">>, <<"c","a","f","e">>, <<"c","a","f","é">>,
     <<"h","o","r","a","r","i","o"," ","b","o","m">>, <<"m","e","l","h","o","r"," ","h","o","r","a","r","i","o">>, <<"m","e","l","h","o","r"," ","h","o","r","á","r","i","o">>,
     <<"e","s","t","a","c","i","o","n","a","m","e","n","t","o">>, <<"s","e","g","u","r","a","n","c","a">>, <<"s","e","g","u","r","a","n","ç","a">>, <<"e","v","i","t","a","r">>, <<"l","o","t","a","d","o">>, <<"l","o","t","a","ç","ã","o">> >>

\* [d.nome || "", d.descricao || "", ...tags].join(" ").toLowerCase()
palheiroDaDica(d) ==
  toLowerCase(join(<<OuPadrao(d.nome, <<>>), OuPadrao(d.descricao, <<>>)>> \o d.tags, <<" ">>))

\* the rows of the DICA query, filtered and cut to two
consultarDicas(tab, cidadeIds) ==
  slice(SelectSeq(tab, LAMBDA d :
          /\ d.ativo
          /\ d.tipo = <<"D","I","C","A">>
          /\ d.cidade_id \in cidadeIds
          /\ AlgumPadrao(palheiroDaDica(d), chavesDeDica)), 2)

linhasDasDicas(ds) ==
  join([k \in 1..Len(ds) |-> <<"* ">> \o ds[k].nome \o <<": ">> \o ds[k].descricao], <<"\n">>)

\* montarFallback
montarFallback(itens, cidadeDetectada, cids, dicasRelevantes) ==
  LET listaCidades == join([k \in 1..Len(cids) |-> cids[k].nome], <<", ">>)
      foco == IF cidadeDetectada # 0 THEN <<" em ">> \o CidadePorId(cidadeDetectada).nome ELSE <<>>
      tres == slice(itens, 3)
      top == join([i \in 1..Len(tres) |->
                     <<Digitos[i + 1], ". ">> \o tres[i].nome \o <<" (">>
                       \o OuPadrao(tres[i].categoria, <<"categoria não informada">>) \o <<")">>
                       \o (IF Falsy(tres[i].beneficio_bepit) THEN <<>>
                           ELSE <<" -- Benefício BEPIT: ">> \o tres[i].beneficio_bepit)],
                  <<" ">>)
      dicasTail == IF Len(dicasRelevantes) > 0
                     THEN <<"\n\nDicas úteis:\n">> \o linhasDasDicas(dicasRelevantes)
                     ELSE <<>>
  IN IF Len(itens) > 0
       THEN <<"Aqui vão algumas opções">> \o foco \o <<": ">> \o top
              \o <<". Para detalhes, responda com o **número** (ex.: 2) ou o **nome**. Posso filtrar por cidade (">>
              \o listaCidades \o <<").">> \o dicasTail
       ELSE <<"Ainda não encontrei itens">> \o foco
              \o <<". Posso procurar por categoria (ex.: restaurante, passeio) ou filtrar por cidade (">>
              \o listaCidades \o <<").">>

\* what the model answers to the final prompt: a rejected call, or a text
SaidasDaGeracao == { [tipo |-> "falha", texto |-> <<>>],
                     [tipo |-> "texto", texto |-> <<" "," ">>],
                     [tipo |-> "texto", texto |-> <<"Resposta da IA">>] }

\* textoIA of step 13
textoDaGeracao(saida, fallback) ==
  IF saida.tipo = "falha" THEN fallback
  ELSE IF Len(trim(saida.texto)) = 0 THEN fallback
  ELSE trim(saida.texto)

\* Array.prototype.flatMap over the photos of the items
RECURSIVE todasAsFotos(_)
todasAsFotos(itens) ==
  IF Len(itens) = 0 THEN <<>>
  ELSE ArrayOuVazio(itens[1].fotos_parceiros) \o todasAsFotos(Tail(itens))

\* fotosParaCliente of step 16
fotosParaCliente(parceiroEmFoco, itens) ==
  IF parceiroEmFoco # SemFoco /\ isArray(parceiroEmFoco[1].fotos_parceiros)
    THEN parceiroEmFoco[1].fotos_parceiros
    ELSE todasAsFotos(itens)

\* the branch taken once the conversation is loaded and the intent known
ramoDoTurno(conversaAtual, intencao, idx) ==
  IF /\ Len(conversaAtual.parceiros_sugeridos) > 0
     /\ intencao = "nenhuma"
     /\ idx # SemIndice /\ idx >= 0 /\ idx < Len(conversaAtual.parceiros_sugeridos)
    THEN "salvar_foco"
  ELSE IF conversaAtual.parceiro_em_foco # SemFoco /\ intencao \in IntencoesDeDetalhe
    THEN "registrar"
  ELSE "itens"

\* ------------------------------------------------------------------------
\* One invocation of the chat handler
\* ------------------------------------------------------------------------
SemResposta ==
  [status |-> 0, reply |-> <<>>, interactionId |-> 0, photoLinks |-> <<>>, conversationId |-> 0]

SemEscrita == [feita |-> FALSE, resultado |-> "ok", conversationId |-> 0,
               payload |-> [parceiro_em_foco |-> SemFoco, temSugeridos |-> FALSE,
                            parceiros_sugeridos |-> <<>>]]

\* the local variables of the handler; the fields from ramo on record what the
\* invocation has done so far
ReqLivre ==
  [pc |-> "livre",
   slugDaRegiao |-> <<>>, message |-> MsgAusente, conversationId |-> 0,
   regiao |-> 0, cidades |-> <<>>, cidadeDetectada |-> 0, analise |-> AnaliseVazia(<<>>),
   conversaAtual |-> ConversaVazia, intencao |-> "nenhuma",
   itens |-> <<>>, dicasRelevantes |-> <<>>, parceiroEmFoco |-> SemFoco,
   textoIA |-> <<>>, registroView |-> <<>>,
   resposta |-> SemResposta,
   ramo |-> "nenhum", idRecebido |-> 0, origemDaConversa |-> "nenhuma",
   chamouBase |-> FALSE, chamouModelo |-> FALSE, escritasDeConversa |-> 0,
   insercoesDeInteracao |-> 0, interacaoGravada |-> FALSE, buscouItens |-> FALSE,
   falhaPrimaria |-> FALSE, falhaSecundaria |-> FALSE, resultadoRegiao |-> "nenhum",
   escrita |-> SemEscrita]

\* response.status(s).json({ error })
responderErro(q, s) ==
  [q EXCEPT !.pc = "fim", !.resposta = [SemResposta EXCEPT !.status = s], !.escrita = SemEscrita]

\* response.status(200).json({ reply, interactionId, photoLinks, conversationId })
responder(q, ramo, reply, interactionId, photoLinks) ==
  [q EXCEPT !.pc = "fim", !.ramo = ramo,
            !.resposta = [status |-> 200, reply |-> reply, interactionId |-> interactionId,
                          photoLinks |-> photoLinks, conversationId |-> q.conversationId]]

\* one more Supabase call by this invocation
comChamada(q) == [q EXCEPT !.chamouBase = TRUE, !.escrita = SemEscrita]

Falhou(o) == IF o = "ok" THEN 0 ELSE 1

\* a row of eventos_analytics (0 stands for null)
evento(tipo, regiaoId, cidadeId, parceiroId, conversationId) ==
  [tipo_evento |-> tipo, regiao_id |-> regiaoId, cidade_id |-> cidadeId,
   parceiro_id |-> parceiroId, conversation_id |-> conversationId]

\* process.env.ADMIN_API_KEY when it is set
ChaveConfigurada == <<"k","1">>

\* the feedback handler before its first request
FbLivre ==
  [pc |-> "livre", interactionId |-> MsgAusente, feedback |-> MsgAusente, status |-> 0,
   chamouBase |-> FALSE]

\* the admin handlers before their first request
AdmLivre ==
  [pc |-> "livre", rota |-> "nenhuma", header |-> NULO, status |-> 0, chamouBase |-> FALSE,
   dados |-> <<>>]

\* no helper function has been called on its own
\* let GEMINI_MODEL_RESOLVED = null
SemModelo == "null"

\* concurrent calls of geminiGenerateWithFallback
Chamadas == {"g1", "g2"}

\* a call slot: not called, or the local variables of the call
GeracaoLivre ==
  [pc |-> "livre", listaTentativas |-> <<>>, i |-> 0, tentados |-> <<>>,
   resolvidoNoInicio |-> SemModelo]

FnLivre ==
  [op |-> "nenhuma", texto |-> <<>>, lista |-> <<>>, cids |-> <<>>, desligado |-> FALSE,
   tabela |-> <<>>, termos |-> <<>>, itens |-> <<>>, cidadeIds |-> {},
   saida |-> "nenhuma", marcador |-> <<>>, numero |-> 0, indice |-> SemIndice,
   intencao |-> "nenhuma", achado |-> SemFoco,
   analise |-> AnaliseVazia(<<>>), lancou |-> FALSE]

Init ==
  /\ disableGemini \in BOOLEAN
  /\ adminApiKey = ChaveConfigurada
  /\ revisao = "src/server/index.js"
  /\ regioes = RegioesIniciais
  /\ cidades = CidadesIniciais
  /\ parceiros = ParceirosIniciais
  /\ conversas = [c \in ConvIds |-> Ausente]
  /\ memoriaConversas = [c \in ConvIds |-> Ausente]
  /\ interacoes = <<>>
  /\ parceiro_views = <<>>
  /\ buscas_texto = <<>>
  /\ eventos_analytics = <<>>
  /\ req = [r \in Reqs |-> ReqLivre]
  /\ fb = FbLivre
  /\ adm = AdmLivre
  /\ fn = FnLivre
  /\ GEMINI_MODEL_RESOLVED = SemModelo
  /\ geracoes = [c \in Chamadas |-> GeracaoLivre]
  /\ proxConv = 1
  /\ turnos = 0
  /\ falhas = 0

tabelas == << regioes, cidades, parceiros, conversas, memoriaConversas, interacoes, parceiro_views,
              buscas_texto, eventos_analytics >>

config == << disableGemini, adminApiKey, revisao >>

\* the state of geminiGenerateWithFallback
gemini == << GEMINI_MODEL_RESOLVED, geracoes >>

outrasRotas == << fb, adm, fn, gemini >>

\* the ids a client may send: none (0), or one a response has handed out
IdsConhecidos == 0..(proxConv - 1)

\* application.post("/api/chat/:slugDaRegiao"): the request arrives and is validated;
\* its path and body are drawn from slugs and mensagens
ReceberDe(r, slugs, mensagens) ==
  /\ req[r].pc \in {"livre", "fim"}
  /\ \A o \in Reqs : req[o].pc \in {"livre", "fim"}
  /\ turnos < MaxTurnos
  /\ turnos' = turnos + 1
  /\ \E slug \in slugs, m \in mensagens, id \in IdsConhecidos :
       LET q == [ReqLivre EXCEPT !.slugDaRegiao = slug, !.message = m,
                                 !.conversationId = id, !.idRecebido = id]
       IN req' = [req EXCEPT ![r] =
                    IF MensagemInvalida(m) THEN responderErro(q, 400)
                    ELSE [q EXCEPT !.pc = "regiao"]]
  /\ UNCHANGED << tabelas, config, outrasRotas, proxConv, falhas >>

ReceberChat(r) == ReceberDe(r, Slugs, Mensagens)

\* 1) Regiao: select ... .eq("slug", slugDaRegiao).single()
CarregarRegiao(r) ==
  /\ req[r].pc = "regiao"
  /\ \E o \in Resultados(falhas) :
       /\ falhas' = falhas + Falhou(o)
       /\ LET q == [comChamada(req[r]) EXCEPT !.resultadoRegiao = o,
                                             !.falhaPrimaria = (o # "ok")]
              ks == {k \in 1..Len(regioes) : regioes[k].slug = q.slugDaRegiao}
          IN req' = [req EXCEPT ![r] =
                       IF o = "throw" THEN responderErro(q, 500)
                       ELSE IF o = "err" \/ Cardinality(ks) # 1 THEN responderErro(q, 404)
                       ELSE [q EXCEPT !.pc = "cidades",
                                      !.regiao = regioes[CHOOSE k \in ks : TRUE].id]]
  /\ UNCHANGED << tabelas, config, outrasRotas, proxConv, turnos >>

\* 2) Cidades and 3) Cidade pelo texto
CarregarCidades(r) ==
  /\ req[r].pc = "cidades"
  /\ \E o \in Resultados(falhas) :
       /\ falhas' = falhas + Falhou(o)
       /\ LET q == comChamada(req[r])
              cids == SelectSeq(cidades, LAMBDA c : c.regiao_id = q.regiao)
          IN req' = [req EXCEPT ![r] =
                       IF o # "ok" THEN responderErro([q EXCEPT !.falhaPrimaria = TRUE], 500)
                       ELSE [q EXCEPT !.pc = "analise", !.cidades = cids,
                               !.cidadeDetectada =
                                 cidadePeloTexto(toLowerCase(q.message.valor), cids)]]
  /\ UNCHANGED << tabelas, config, outrasRotas, proxConv, turnos >>

\* after analisarEntradaUsuario: the suggested city, then 4) or 5)
aposAnalise(q, analise) ==
  LET cand == IF Falsy(analise.cidadeSlugSugerida) THEN 0
              ELSE cidadePorSlug(q.cidades, analise.cidadeSlugSugerida)
  IN [q EXCEPT !.analise = analise,
               !.cidadeDetectada = IF q.cidadeDetectada = 0 /\ cand # 0 THEN cand ELSE @,
               !.pc = IF q.conversationId = 0 THEN "criar" ELSE "carregar"]

\* analisarEntradaUsuario with DISABLE_GEMINI
AnalisarSemGemini(r) ==
  /\ req[r].pc = "analise"
  /\ disableGemini
  /\ req' = [req EXCEPT ![r] =
               aposAnalise(req[r], analisarSemGemini(req[r].message.valor, req[r].cidades))]
  /\ UNCHANGED << tabelas, config, outrasRotas, proxConv, turnos, falhas >>

\* analisarEntradaUsuario with the model
AnalisarComGemini(r) ==
  /\ req[r].pc = "analise"
  /\ ~disableGemini
  /\ \E saida \in SaidasDaAnalise :
       req' = [req EXCEPT ![r] =
                 aposAnalise([req[r] EXCEPT !.chamouModelo = TRUE],
                             analisarComGemini(saida, req[r].message.valor))]
  /\ UNCHANGED << tabelas, config, outrasRotas, proxConv, turnos, falhas >>

\* 4) conversationId: randomUUID() and the insert into conversas
CriarConversa(r) ==
  /\ req[r].pc = "criar"
  /\ \E o \in Resultados(falhas) :
       /\ falhas' = falhas + Falhou(o)
       /\ LET id == proxConv
              payload == [parceiro_em_foco |-> SemFoco, temSugeridos |-> TRUE,
                          parceiros_sugeridos |-> <<>>]
          IN /\ req' = [req EXCEPT ![r] =
                          [comChamada(req[r]) EXCEPT
                             !.conversationId = id, !.pc = "carregar",
                             !.escritasDeConversa = @ + 1,
                             !.escrita = [feita |-> TRUE, resultado |-> o,
                                          conversationId |-> id, payload |-> payload]]]
             /\ conversas' = IF o = "ok"
                               THEN [conversas EXCEPT ![id] =
                                       [existe |-> TRUE, parceiro_em_foco |-> SemFoco,
                                        parceiros_sugeridos |-> <<>>]]
                               ELSE conversas
             /\ memoriaConversas' = IF o = "ok" THEN memoriaConversas
                                    ELSE salvarConversaMem(memoriaConversas, id, payload)
  /\ proxConv' = proxConv + 1
  /\ UNCHANGED << regioes, cidades, parceiros, interacoes, parceiro_views, buscas_texto,
                  eventos_analytics, config, outrasRotas, turnos >>

\* 5) conversaAtual: the row of the table when the select gives exactly one without
\* error, else carregarConversaMem(conversationId)
conversaLida(tab, mem, id, o) ==
  IF o = "ok" /\ tab[id].existe
    THEN [parceiro_em_foco |-> tab[id].parceiro_em_foco,
          parceiros_sugeridos |-> tab[id].parceiros_sugeridos]
  ELSE carregarConversaMem(mem, id)

\* 5) carregar conversa: select ... .eq("id", conversationId).single()
CarregarConversa(r) ==
  /\ req[r].pc = "carregar"
  /\ \E o \in Resultados(falhas) :
       /\ falhas' = falhas + Falhou(o)
       /\ LET q == comChamada(req[r])
              id == q.conversationId
              daBase == o = "ok" /\ conversas[id].existe
          IN req' = [req EXCEPT ![r] =
                       [q EXCEPT !.pc = "busca_texto",
                                 !.origemDaConversa = IF daBase THEN "base" ELSE "memoria",
                                 !.conversaAtual =
                                   conversaLida(conversas, memoriaConversas, id, o)]]
  /\ UNCHANGED << tabelas, config, outrasRotas, proxConv, turnos >>

\* 7) intencao, and the branch of 7.1, 7.2 or 8)
aposMetricas(q) ==
  LET intencao == detectarIntencao(q.message.valor)
  IN [q EXCEPT !.intencao = intencao,
               !.pc = ramoDoTurno(q.conversaAtual, intencao,
                                  extrairIndiceEscolhido(q.message.valor))]

\* an analytics block without its catch: the rejection reaches the outer catch
aposBuscaSemCatch(q, o) ==
  IF o = "throw" THEN responderErro(q, 500) ELSE [q EXCEPT !.pc = "evento_busca"]

\* 6) the catch of the analytics block skips the second insert
aposBusca(q, o) ==
  IF o = "throw" THEN aposMetricas(q) ELSE [q EXCEPT !.pc = "evento_busca"]

\* 6) analytics: the insert into buscas_texto
RegistrarBusca(r) ==
  /\ req[r].pc = "busca_texto"
  /\ \E o \in Resultados(falhas) :
       /\ falhas' = falhas + Falhou(o)
       /\ LET q == [comChamada(req[r]) EXCEPT !.falhaSecundaria = @ \/ (o # "ok")]
          IN req' = [req EXCEPT ![r] = aposBusca(q, o)]
       /\ buscas_texto' =
            IF o = "ok"
              THEN Append(buscas_texto, [regiao_id |-> req[r].regiao,
                                         cidade_id |-> req[r].cidadeDetectada])
              ELSE buscas_texto
  /\ UNCHANGED << regioes, cidades, parceiros, conversas, memoriaConversas, interacoes,
                  parceiro_views, eventos_analytics, config, outrasRotas, proxConv, turnos >>

\* 6) analytics: the insert of the "search" event
RegistrarEventoDeBusca(r) ==
  /\ req[r].pc = "evento_busca"
  /\ \E o \in Resultados(falhas) :
       /\ falhas' = falhas + Falhou(o)
       /\ req' = [req EXCEPT ![r] =
                    aposMetricas([comChamada(req[r]) EXCEPT
                                    !.falhaSecundaria = @ \/ (o # "ok")])]
       /\ eventos_analytics' = IF o = "ok"
                                 THEN Append(eventos_analytics,
                                             evento("search", req[r].regiao,
                                                    req[r].cidadeDetectada, 0,
                                                    req[r].conversationId))
                                 ELSE eventos_analytics
  /\ UNCHANGED << regioes, cidades, parceiros, conversas, memoriaConversas, interacoes,
                  parceiro_views, buscas_texto, config, outrasRotas, proxConv, turnos >>

\* a selection that reads the suggestions again in the step that writes the focus
SalvarFocoRelendo(r) ==
  /\ req[r].pc = "salvar_foco"
  /\ \E o \in Resultados(falhas) :
       /\ falhas' = falhas + Falhou(o)
       /\ LET q == comChamada(req[r])
              id == q.conversationId
              idx == extrairIndiceEscolhido(q.message.valor)
              lista == IF conversas[id].existe /\ idx < Len(conversas[id].parceiros_sugeridos)
                         THEN conversas[id].parceiros_sugeridos
                       ELSE q.conversaAtual.parceiros_sugeridos
              escolhido == lista[idx + 1]
              payload == [parceiro_em_foco |-> <<escolhido>>, temSugeridos |-> FALSE,
                          parceiros_sugeridos |-> <<>>]
          IN /\ conversas' = IF o = "ok" THEN AtualizarLinhaConversa(conversas, id, payload)
                             ELSE conversas
             /\ memoriaConversas' = IF o = "ok" THEN memoriaConversas
                                    ELSE salvarConversaMem(memoriaConversas, id, payload)
             /\ req' = [req EXCEPT ![r] =
                          responder([q EXCEPT !.escritasDeConversa = @ + 1,
                                              !.escrita = [feita |-> TRUE, resultado |-> o,
                                                           conversationId |-> id,
                                                           payload |-> payload]],
                                    "selecao", resumoDoParceiro(<<escolhido>>), 0,
                                    ArrayOuVazio(escolhido.fotos_parceiros))]
  /\ UNCHANGED << regioes, cidades, parceiros, interacoes, parceiro_views, buscas_texto,
                  eventos_analytics, config, outrasRotas, proxConv, turnos >>

\* 7.1 Selecao por indice: the update of parceiro_em_foco and the summary
SalvarFoco(r) ==
  /\ req[r].pc = "salvar_foco"
  /\ \E o \in Resultados(falhas) :
       /\ falhas' = falhas + Falhou(o)
       /\ LET q == comChamada(req[r])
              id == q.conversationId
              idx == extrairIndiceEscolhido(q.message.valor)
              escolhido == q.conversaAtual.parceiros_sugeridos[idx + 1]
              payload == [parceiro_em_foco |-> <<escolhido>>, temSugeridos |-> FALSE,
                          parceiros_sugeridos |-> <<>>]
          IN /\ conversas' = IF o = "ok" THEN AtualizarLinhaConversa(conversas, id, payload)
                             ELSE conversas
             /\ memoriaConversas' = IF o = "ok" THEN memoriaConversas
                                    ELSE salvarConversaMem(memoriaConversas, id, payload)
             /\ req' = [req EXCEPT ![r] =
                          responder([q EXCEPT !.escritasDeConversa = @ + 1,
                                              !.escrita = [feita |-> TRUE, resultado |-> o,
                                                           conversationId |-> id,
                                                           payload |-> payload]],
                                    "selecao", resumoDoParceiro(<<escolhido>>), 0,
                                    ArrayOuVazio(escolhido.fotos_parceiros))]
  /\ UNCHANGED << regioes, cidades, parceiros, interacoes, parceiro_views, buscas_texto,
                  eventos_analytics, config, outrasRotas, proxConv, turnos >>

\* a row of interacoes
novaInteracao(q) ==
  [regiao_id |-> q.regiao, conversation_id |-> q.conversationId, feedback_usuario |-> NULO]

\* 7.2 Follow-ups diretos: registrar(respostaDireta) and the direct answer
RegistrarFollowUp(r) ==
  /\ req[r].pc = "registrar"
  /\ \E o \in Resultados(falhas) :
       /\ falhas' = falhas + Falhou(o)
       /\ LET q == [comChamada(req[r]) EXCEPT !.insercoesDeInteracao = @ + 1,
                                             !.interacaoGravada = (o = "ok"),
                                             !.falhaSecundaria = @ \/ (o # "ok")]
              parceiroAtual == q.conversaAtual.parceiro_em_foco[1]
          IN /\ interacoes' = IF o = "ok" THEN Append(interacoes, novaInteracao(q))
                              ELSE interacoes
             /\ req' = [req EXCEPT ![r] =
                          responder(q, "followup", respostaDireta(parceiroAtual, q.intencao), 0,
                                    fotosDoFollowUp(parceiroAtual, q.intencao))]
  /\ UNCHANGED << regioes, cidades, parceiros, conversas, memoriaConversas, parceiro_views,
                  buscas_texto, eventos_analytics, config, outrasRotas, proxConv, turnos >>

\* detectarDias, montarRoteiro and montarRoteiroTexto are called by step 10 and are
\* neither defined nor imported by the module: the call throws a ReferenceError
roteiroDefinido == FALSE

\* after the items (and the DICAs): 10) Intencao ROTEIRO, else 11)
aposItens(q) ==
  IF q.intencao = "roteiro" /\ ~roteiroDefinido
    THEN [responderErro(q, 500) EXCEPT !.ramo = "roteiro"]
    ELSE [q EXCEPT !.pc = "atualizar",
                   !.parceiroEmFoco = IF Len(q.itens) > 0 THEN <<q.itens[1]>> ELSE SemFoco]

\* 8) Buscar itens
BuscarItens(r) ==
  /\ req[r].pc = "itens"
  /\ \E o \in Resultados(falhas) :
       /\ falhas' = falhas + Falhou(o)
       /\ LET q == [comChamada(req[r]) EXCEPT !.buscouItens = TRUE]
              itens == consultarItens(parceiros, cidadeIdsDe(q.cidadeDetectada, q.cidades),
                                      termosDoPerfil(q.analise.vibe))
          IN req' = [req EXCEPT ![r] =
                       IF o # "ok" THEN responderErro([q EXCEPT !.falhaPrimaria = TRUE], 500)
                       ELSE IF q.intencao = "dica" THEN [q EXCEPT !.itens = itens, !.pc = "dicas"]
                       ELSE aposItens([q EXCEPT !.itens = itens])]
  /\ UNCHANGED << tabelas, config, outrasRotas, proxConv, turnos >>

\* 9) DICAs relevantes
BuscarDicas(r) ==
  /\ req[r].pc = "dicas"
  /\ \E o \in Resultados(falhas) :
       /\ falhas' = falhas + Falhou(o)
       /\ LET q == comChamada(req[r])
              dicas == consultarDicas(parceiros, cidadeIdsDe(q.cidadeDetectada, q.cidades))
          IN req' = [req EXCEPT ![r] =
                       IF o = "throw" THEN responderErro([q EXCEPT !.falhaPrimaria = TRUE], 500)
                       ELSE aposItens([q EXCEPT !.dicasRelevantes =
                                                  IF o = "ok" THEN dicas ELSE <<>>])]
  /\ UNCHANGED << tabelas, config, outrasRotas, proxConv, turnos >>

\* 14) is entered when parceiroEmFoco?.id is set
aposTexto(q) == [q EXCEPT !.pc = IF q.parceiroEmFoco # SemFoco THEN "ler_view" ELSE "interacao"]

fallbackDe(q) == montarFallback(q.itens, q.cidadeDetectada, q.cidades, q.dicasRelevantes)

\* 11) Atualizar conversa com foco e sugeridos; 13) without the model
AtualizarConversa(r) ==
  /\ req[r].pc = "atualizar"
  /\ \E o \in Resultados(falhas) :
       /\ falhas' = falhas + Falhou(o)
       /\ LET id == req[r].conversationId
              payload == [parceiro_em_foco |-> req[r].parceiroEmFoco, temSugeridos |-> TRUE,
                          parceiros_sugeridos |-> req[r].itens]
              q == [comChamada(req[r]) EXCEPT
                      !.escritasDeConversa = @ + 1,
                      !.escrita = [feita |-> TRUE, resultado |-> o, conversationId |-> id,
                                   payload |-> payload]]
          IN /\ conversas' = IF o = "ok" THEN AtualizarLinhaConversa(conversas, id, payload)
                             ELSE conversas
             /\ memoriaConversas' = IF o = "throw"
                                      THEN salvarConversaMem(memoriaConversas, id, payload)
                                      ELSE memoriaConversas
             /\ req' = [req EXCEPT ![r] =
                          IF disableGemini THEN aposTexto([q EXCEPT !.textoIA = fallbackDe(q)])
                          ELSE [q EXCEPT !.pc = "gerar"]]
  /\ UNCHANGED << regioes, cidades, parceiros, interacoes, parceiro_views, buscas_texto,
                  eventos_analytics, config, outrasRotas, proxConv, turnos >>

\* 13) Geracao final por IA
GerarResposta(r) ==
  /\ req[r].pc = "gerar"
  /\ \E saida \in SaidasDaGeracao :
       req' = [req EXCEPT ![r] =
                 aposTexto([req[r] EXCEPT !.chamouModelo = TRUE,
                                          !.textoIA = textoDaGeracao(saida, fallbackDe(req[r]))])]
  /\ UNCHANGED << tabelas, config, outrasRotas, proxConv, turnos, falhas >>

linhasDeView(tab, parceiroId) == SelectSeq(tab, LAMBDA v : v.parceiro_id = parceiroId)

\* 14) select("*").eq("parceiro_id", id).maybeSingle()
LerViews(r) ==
  /\ req[r].pc = "ler_view"
  /\ \E o \in Resultados(falhas) :
       /\ falhas' = falhas + Falhou(o)
       /\ LET q == comChamada(req[r])
              linhas == linhasDeView(parceiro_views, q.parceiroEmFoco[1].id)
              erro == o # "ok" \/ Len(linhas) > 1
          IN req' = [req EXCEPT ![r] =
                       IF erro THEN [q EXCEPT !.pc = "interacao", !.falhaSecundaria = TRUE]
                       ELSE [q EXCEPT !.pc = "gravar_view", !.registroView = linhas]]
  /\ UNCHANGED << tabelas, config, outrasRotas, proxConv, turnos >>

\* update({ views_total: (registroView.views_total || 0) + 1 }).eq("parceiro_id", id)
incrementarViews(tab, parceiroId, registroView) ==
  [k \in 1..Len(tab) |->
     IF tab[k].parceiro_id = parceiroId
       THEN [tab[k] EXCEPT !.views_total = registroView.views_total + 1]
       ELSE tab[k]]

\* 14) the update or the insert of the counter row
GravarView(r) ==
  /\ req[r].pc = "gravar_view"
  /\ \E o \in Resultados(falhas) :
       /\ falhas' = falhas + Falhou(o)
       /\ LET q == comChamada(req[r])
              id == q.parceiroEmFoco[1].id
          IN /\ parceiro_views' =
                  IF o # "ok" THEN parceiro_views
                  ELSE IF Len(q.registroView) > 0
                    THEN incrementarViews(parceiro_views, id, q.registroView[1])
                  ELSE Append(parceiro_views, [parceiro_id |-> id, views_total |-> 1])
             /\ req' = [req EXCEPT ![r] =
                          IF o = "ok" THEN [q EXCEPT !.pc = "evento_view"]
                          ELSE [q EXCEPT !.pc = "interacao", !.falhaSecundaria = TRUE]]
  /\ UNCHANGED << regioes, cidades, parceiros, conversas, memoriaConversas, interacoes,
                  buscas_texto, eventos_analytics, config, outrasRotas, proxConv, turnos >>

\* 14) the insert of the "partner_view" event
RegistrarEventoDeView(r) ==
  /\ req[r].pc = "evento_view"
  /\ \E o \in Resultados(falhas) :
       /\ falhas' = falhas + Falhou(o)
       /\ req' = [req EXCEPT ![r] =
                    [comChamada(req[r]) EXCEPT !.pc = "interacao",
                                               !.falhaSecundaria = @ \/ (o # "ok")]]
       /\ eventos_analytics' = IF o = "ok"
                                 THEN Append(eventos_analytics,
                                             evento("partner_view", req[r].regiao,
                                                    req[r].parceiroEmFoco[1].cidade_id,
                                                    req[r].parceiroEmFoco[1].id,
                                                    req[r].conversationId))
                                 ELSE eventos_analytics
  /\ UNCHANGED << regioes, cidades, parceiros, conversas, memoriaConversas, interacoes,
                  parceiro_views, buscas_texto, config, outrasRotas, proxConv, turnos >>

\* 15) Registrar interacao, 16) fotos, and the response
RegistrarInteracao(r) ==
  /\ req[r].pc = "interacao"
  /\ \E o \in Resultados(falhas) :
       /\ falhas' = falhas + Falhou(o)
       /\ LET q == [comChamada(req[r]) EXCEPT !.insercoesDeInteracao = @ + 1,
                                             !.interacaoGravada = (o = "ok"),
                                             !.falhaSecundaria = @ \/ (o # "ok")]
          IN /\ interacoes' = IF o = "ok" THEN Append(interacoes, novaInteracao(q))
                              ELSE interacoes
             /\ req' = [req EXCEPT ![r] =
                          responder(q, "livre", q.textoIA,
                                    IF o = "ok" THEN Len(interacoes) + 1 ELSE 0,
                                    fotosParaCliente(q.parceiroEmFoco, q.itens))]
  /\ UNCHANGED << regioes, cidades, parceiros, conversas, memoriaConversas, parceiro_views,
                  buscas_texto, eventos_analytics, config, outrasRotas, proxConv, turnos >>

\* ------------------------------------------------------------------------
\* The chat route, one request at a time
\* ------------------------------------------------------------------------
Chat(r) ==
  \/ ReceberChat(r)
  \/ CarregarRegiao(r)
  \/ CarregarCidades(r)
  \/ AnalisarSemGemini(r)
  \/ AnalisarComGemini(r)
  \/ CriarConversa(r)
  \/ CarregarConversa(r)
  \/ RegistrarBusca(r)
  \/ RegistrarEventoDeBusca(r)
  \/ SalvarFoco(r)
  \/ RegistrarFollowUp(r)
  \/ BuscarItens(r)
  \/ BuscarDicas(r)
  \/ AtualizarConversa(r)
  \/ GerarResposta(r)
  \/ LerViews(r)
  \/ GravarView(r)
  \/ RegistrarEventoDeView(r)
  \/ RegistrarInteracao(r)

Next == \E r \in UmPorVez : Chat(r)

Spec == Init /\ [][Next]_vars

\* ------------------------------------------------------------------------
\* The chat route with requests to two regions
\* ------------------------------------------------------------------------
SlugsDasRegioes == {<<"l","a","g","o","s">>, <<"s","e","r","r","a">>}

MensagensDeEscolha == { Texto(<<"2">>), Texto(<<"o"," ","m","a","r">>), Texto(<<"o","n","d","e"," ","f","i","c","a","?">>), Texto(<<"c","a","f","é">>) }

ReceberEntreRegioes(r) == ReceberDe(r, SlugsDasRegioes, MensagensDeEscolha)

ChatEntreRegioes(r) ==
  \/ ReceberEntreRegioes(r)
  \/ CarregarRegiao(r)
  \/ CarregarCidades(r)
  \/ AnalisarSemGemini(r)
  \/ AnalisarComGemini(r)
  \/ CriarConversa(r)
  \/ CarregarConversa(r)
  \/ RegistrarBusca(r)
  \/ RegistrarEventoDeBusca(r)
  \/ SalvarFoco(r)
  \/ RegistrarFollowUp(r)
  \/ BuscarItens(r)
  \/ BuscarDicas(r)
  \/ AtualizarConversa(r)
  \/ GerarResposta(r)
  \/ LerViews(r)
  \/ GravarView(r)
  \/ RegistrarEventoDeView(r)
  \/ RegistrarInteracao(r)

NextRegioes == \E r \in UmPorVez : ChatEntreRegioes(r)

SpecRegioes == Init /\ [][NextRegioes]_vars

\* ------------------------------------------------------------------------
\* The chat route with requests that overlap
\* ------------------------------------------------------------------------
MensagensJuntas == { Texto(<<"2">>), Texto(<<"o","n","d","e"," ","f","i","c","a","?">>), Texto(<<"p","i","z","z","a"," ","e","m"," ","B","ú","z","i","o","s">>) }

\* a run in which no Supabase call fails
InitSemFalhas ==
  /\ disableGemini = TRUE
  /\ adminApiKey = ChaveConfigurada
  /\ revisao = "src/server/index.js"
  /\ regioes = RegioesIniciais
  /\ cidades = CidadesIniciais
  /\ parceiros = ParceirosIniciais
  /\ conversas = [c \in ConvIds |-> Ausente]
  /\ memoriaConversas = [c \in ConvIds |-> Ausente]
  /\ interacoes = <<>>
  /\ parceiro_views = <<>>
  /\ buscas_texto = <<>>
  /\ eventos_analytics = <<>>
  /\ req = [r \in Reqs |-> ReqLivre]
  /\ fb = FbLivre
  /\ adm = AdmLivre
  /\ fn = FnLivre
  /\ GEMINI_MODEL_RESOLVED = SemModelo
  /\ geracoes = [c \in Chamadas |-> GeracaoLivre]
  /\ proxConv = 1
  /\ turnos = 0
  /\ falhas = MaxFalhas

\* application.post("/api/chat/:slugDaRegiao"): a request arrives while another
\* invocation of the handler may be between two of its awaits
ReceberJunto(r) ==
  /\ req[r].pc \in {"livre", "fim"}
  /\ turnos < MaxTurnosJuntos
  /\ turnos' = turnos + 1
  /\ \E m \in MensagensJuntas, id \in IdsConhecidos :
       LET q == [ReqLivre EXCEPT !.slugDaRegiao = <<"l","a","g","o","s">>, !.message = m,
                                 !.conversationId = id, !.idRecebido = id]
       IN req' = [req EXCEPT ![r] =
                    IF MensagemInvalida(m) THEN responderErro(q, 400)
                    ELSE [q EXCEPT !.pc = "regiao"]]
  /\ UNCHANGED << tabelas, config, outrasRotas, proxConv, falhas >>

ChatJunto(r) ==
  \/ ReceberJunto(r)
  \/ CarregarRegiao(r)
  \/ CarregarCidades(r)
  \/ AnalisarSemGemini(r)
  \/ CriarConversa(r)
  \/ CarregarConversa(r)
  \/ RegistrarBusca(r)
  \/ RegistrarEventoDeBusca(r)
  \/ SalvarFoco(r)
  \/ RegistrarFollowUp(r)
  \/ BuscarItens(r)
  \/ AtualizarConversa(r)
  \/ LerViews(r)
  \/ GravarView(r)
  \/ RegistrarEventoDeView(r)
  \/ RegistrarInteracao(r)

NextJunto == \E r \in Reqs : ChatJunto(r)

SpecJunto == InitSemFalhas /\ [][NextJunto]_vars

\* ------------------------------------------------------------------------
\* POST /api/feedback
\* ------------------------------------------------------------------------
\* tables as some chat turns in region 1 have left them
InteracoesEmUso ==
  << [regiao_id |-> 1, conversation_id |-> 1, feedback_usuario |-> NULO],
     [regiao_id |-> 1, conversation_id |-> 1, feedback_usuario |-> NULO] >>

ViewsEmUso == << [parceiro_id |-> 1, views_total |-> 2], [parceiro_id |-> 4, views_total |-> 1],
                 [parceiro_id |-> 2, views_total |-> 2] >>

BuscasEmUso == << [regiao_id |-> 1, cidade_id |-> 1], [regiao_id |-> 1, cidade_id |-> 0] >>

EventosEmUso == << evento("search", 1, 1, 0, 1), evento("partner_view", 1, 1, 1, 1),
                   evento("search", 1, 0, 0, 1) >>

InitEmUso ==
  /\ disableGemini = TRUE
  /\ adminApiKey \in {ChaveConfigurada, NULO}
  /\ revisao \in {"src/server/index.js", "src/unnamed/part_001"}
  /\ regioes = RegioesIniciais
  /\ cidades = CidadesIniciais
  /\ parceiros = ParceirosIniciais
  /\ conversas = [c \in ConvIds |-> Ausente]
  /\ memoriaConversas = [c \in ConvIds |-> Ausente]
  /\ interacoes = InteracoesEmUso
  /\ parceiro_views = ViewsEmUso
  /\ buscas_texto = BuscasEmUso
  /\ eventos_analytics = EventosEmUso
  /\ req = [r \in Reqs |-> ReqLivre]
  /\ fb = FbLivre
  /\ adm = AdmLivre
  /\ fn = FnLivre
  /\ GEMINI_MODEL_RESOLVED = SemModelo
  /\ geracoes = [c \in Chamadas |-> GeracaoLivre]
  /\ proxConv = 1
  /\ turnos = 0
  /\ falhas = 0

\* body.interactionId: absent, not a string, or a string
IdsDeInteracao ==
  { MsgAusente, MsgNumero, Texto(<<>>), Texto(<<"1">>), Texto(<<"2">>), Texto(<<"9">>) }

\* body.feedback: absent, not a string, or a string
Feedbacks ==
  { MsgAusente, MsgNumero, Texto(<<>>), Texto(<<" "," ">>), Texto(<<"b","o","m">>), Texto(<<"r","u","i","m">>) }

\* a validation of feedback that forgets to trim
FeedbackSemTexto(f) == f.tipo # "string" \/ Len(f.valor) = 0

\* !feedback || typeof feedback !== "string" || feedback.trim().length === 0
FeedbackInvalido(f) == f.tipo # "string" \/ Len(f.valor) = 0 \/ Len(trim(f.valor)) = 0

\* !interactionId || typeof interactionId !== "string"
InteractionIdInvalido(i) == i.tipo # "string" \/ Len(i.valor) = 0

\* the id of the k-th row of interacoes, as the string a response carries
IdDaInteracao(k) == <<Digitos[k + 1]>>

\* update({ feedback_usuario: feedback }).eq("id", interactionId)
gravarFeedback(tab, interactionId, feedback) ==
  [k \in 1..Len(tab) |->
     IF IdDaInteracao(k) = interactionId THEN [tab[k] EXCEPT !.feedback_usuario = feedback]
     ELSE tab[k]]

\* the two validations
ReceberFeedback ==
  /\ fb.pc \in {"livre", "fim"}
  /\ turnos < MaxTurnos
  /\ turnos' = turnos + 1
  /\ \E i \in IdsDeInteracao, f \in Feedbacks :
       LET q == [FbLivre EXCEPT !.interactionId = i, !.feedback = f]
       IN fb' = IF InteractionIdInvalido(i) \/ FeedbackInvalido(f)
                  THEN [q EXCEPT !.pc = "fim", !.status = 400]
                  ELSE [q EXCEPT !.pc = "atualizar"]
  /\ UNCHANGED << tabelas, config, req, adm, fn, gemini, proxConv, falhas >>

\* the update of interacoes
AtualizarFeedback ==
  /\ fb.pc = "atualizar"
  /\ \E o \in Resultados(falhas) :
       /\ falhas' = falhas + Falhou(o)
       /\ fb' = IF o = "ok" THEN [fb EXCEPT !.pc = "evento", !.chamouBase = TRUE]
                ELSE [fb EXCEPT !.pc = "fim", !.status = 500, !.chamouBase = TRUE]
       /\ interacoes' = IF o = "ok"
                          THEN gravarFeedback(interacoes, fb.interactionId.valor, fb.feedback.valor)
                          ELSE interacoes
  /\ UNCHANGED << regioes, cidades, parceiros, conversas, memoriaConversas, parceiro_views,
                  buscas_texto, eventos_analytics, config, req, adm, fn, gemini, proxConv, turnos >>

\* the insert of the "feedback" event and the response
RegistrarEventoDeFeedback ==
  /\ fb.pc = "evento"
  /\ \E o \in Resultados(falhas) :
       /\ falhas' = falhas + Falhou(o)
       /\ fb' = [fb EXCEPT !.pc = "fim", !.status = 200]
       /\ eventos_analytics' = IF o = "ok"
                                 THEN Append(eventos_analytics, evento("feedback", 0, 0, 0, 0))
                                 ELSE eventos_analytics
  /\ UNCHANGED << regioes, cidades, parceiros, conversas, memoriaConversas, interacoes,
                  parceiro_views, buscas_texto, config, req, adm, fn, gemini, proxConv, turnos >>

Feedback == ReceberFeedback \/ AtualizarFeedback \/ RegistrarEventoDeFeedback

NextFeedback == Feedback

\* the revision of src/server/index.js, with its secret configured
InitFeedback ==
  /\ InitEmUso
  /\ revisao = "src/server/index.js"
  /\ adminApiKey = ChaveConfigurada

SpecFeedback == InitFeedback /\ [][NextFeedback]_vars

\* ------------------------------------------------------------------------
\* The admin routes
\* ------------------------------------------------------------------------
\* the X-Admin-Key header of a request: absent, empty, the secret, another key
Cabecalhos == { NULO, <<>>, ChaveConfigurada, <<"k","2">> }

\* a middleware that only asks for some header
exigirAlgumaChave(header, chave) == ~Falsy(header)

\* exigirAdminKey: TRUE when next() is called, FALSE when it answers 401
exigirAdminKey(header, chave) == ~(Falsy(header) \/ header # chave)

\* the city slugs an admin request may carry (the last one is no city)
SlugsDeCidade == { <<"b","u","z","i","o","s">>, <<"n","a","d","a">> }

\* body.ativo: absent, true or false
Ativos == { "ausente", "true", "false" }

CorpoVazio ==
  [nome |-> NULO, tipo |-> NULO, descricao |-> NULO, categoria |-> NULO,
   beneficio_bepit |-> NULO, endereco |-> NULO, contato |-> NULO, tags |-> ArrNulo,
   horario_funcionamento |-> NULO, faixa_preco |-> NULO, fotos_parceiros |-> ArrNulo,
   fotos |-> ArrNulo, ativo |-> "ausente"]

\* the bodies of POST and PUT /api/admin/parceiros
CorposDeParceiro ==
  { CorpoVazio,
    [CorpoVazio EXCEPT !.nome = <<"L","u","a">>],
    [CorpoVazio EXCEPT !.nome = <<"L","u","a">>, !.categoria = <<"b","a","r">>, !.endereco = <<>>,
                       !.tags = <<<<"c","a","f","e">>>>, !.fotos = <<<<"u","9">>>>, !.ativo = "false"] }

\* v || null
OuNuloSeVazio(v) == IF Falsy(v) THEN NULO ELSE v

\* Array.isArray(a) ? a : null
ArrayOuNulo(a) == IF isArray(a) THEN a ELSE ArrNulo

\* novoRegistro of POST /api/admin/parceiros
novoRegistro(id, cidadeId, b) ==
  [id |-> id, cidade_id |-> cidadeId,
   tipo |-> OuPadrao(b.tipo, <<"P","A","R","C","E","I","R","O">>),
   nome |-> b.nome,
   descricao |-> OuNuloSeVazio(b.descricao),
   categoria |-> OuNuloSeVazio(b.categoria),
   beneficio_bepit |-> OuNuloSeVazio(b.beneficio_bepit),
   endereco |-> OuNuloSeVazio(b.endereco),
   contato |-> OuNuloSeVazio(b.contato),
   tags |-> ArrayOuNulo(b.tags),
   horario_funcionamento |-> OuNuloSeVazio(b.horario_funcionamento),
   faixa_preco |-> OuNuloSeVazio(b.faixa_preco),
   fotos_parceiros |-> IF isArray(b.fotos_parceiros) THEN b.fotos_parceiros
                       ELSE ArrayOuNulo(b.fotos),
   ativo |-> b.ativo # "false"]

\* novo of the older POST /api/admin/parceiros, whose photo column is fotos
novoRegistroAntigo(id, cidadeId, b) ==
  [novoRegistro(id, cidadeId, b) EXCEPT !.fotos_parceiros = ArrayOuNulo(b.fotos)]

\* atualizacao of PUT /api/admin/parceiros/:id, applied to a row
atualizacao(p, b) ==
  [p EXCEPT !.nome = b.nome,
            !.categoria = b.categoria,
            !.descricao = b.descricao,
            !.beneficio_bepit = b.beneficio_bepit,
            !.endereco = b.endereco,
            !.contato = b.contato,
            !.tags = ArrayOuNulo(b.tags),
            !.horario_funcionamento = b.horario_funcionamento,
            !.faixa_preco = b.faixa_preco,
            !.fotos_parceiros = IF isArray(b.fotos_parceiros) THEN b.fotos_parceiros
                                ELSE ArrayOuNulo(b.fotos),
            !.ativo = b.ativo # "false"]

\* the outcome of the k-th Supabase call of a handler, when call f fails in way t
resultadoDaChamada(k, f, t) == IF k = f THEN t ELSE "ok"

\* the failing call a handler with n calls may meet (0: none)
FalhasPossiveis(n) == IF falhas < MaxFalhas THEN 0..n ELSE {0}

ModosDeFalha == {"err", "throw"}

regioesPorSlug(slug) == SelectSeq(regioes, LAMBDA g : g.slug = slug)

cidadesPorSlug(regiaoId, slug) ==
  SelectSeq(cidades, LAMBDA c : c.regiao_id = regiaoId /\ c.slug = slug)

SemDados == [itens |-> {}, top5 |-> <<>>, totais |-> <<>>, eventos |-> <<>>]

\* what a handler body hands back: status, response data, calls made, whether one failed
feito(status, dados, chamadas, falhou) ==
  [status |-> status, dados |-> dados, chamadas |-> chamadas, falhou |-> falhou]

\* the two .single() lookups of the parceiros routes (calls 1 and 2): status 0 when both
\* found their row, else the status of the early return
resolverCidade(regiaoSlug, cidadeSlug, f, t) ==
  LET regs == regioesPorSlug(regiaoSlug)
      o1 == resultadoDaChamada(1, f, t)
      o2 == resultadoDaChamada(2, f, t)
  IN IF o1 = "throw" THEN [status |-> 500, chamadas |-> 1, falhou |-> 1, cidadeId |-> 0]
     ELSE IF o1 = "err" \/ Len(regs) # 1
       THEN [status |-> 400, chamadas |-> 1, falhou |-> Falhou(o1), cidadeId |-> 0]
     ELSE LET cids == cidadesPorSlug(regs[1].id, cidadeSlug)
          IN IF o2 = "throw"
               THEN [status |-> 500, chamadas |-> 2, falhou |-> 1, cidadeId |-> 0]
             ELSE IF o2 = "err" \/ Len(cids) # 1
               THEN [status |-> 400, chamadas |-> 2, falhou |-> Falhou(o2), cidadeId |-> 0]
             ELSE [status |-> 0, chamadas |-> 2, falhou |-> 0, cidadeId |-> cids[1].id]

\* the state of adm after a request
respondido(rota, header, r) ==
  [pc |-> "fim", rota |-> rota, header |-> header, status |-> r.status,
   chamouBase |-> r.chamadas > 0, dados |-> r.dados]

\* the answer of exigirAdminKey
naoAutorizado == feito(401, SemDados, 0, 0)

AdmPronto == adm.pc \in {"livre", "fim"} /\ turnos < MaxTurnos

\* the handler of POST /api/admin/parceiros: its response and the table it leaves
criarParceiro(regiaoSlug, cidadeSlug, b, f, t, antigo) ==
  LET c == resolverCidade(regiaoSlug, cidadeSlug, f, t)
      o3 == resultadoDaChamada(3, f, t)
      id == Len(parceiros) + 1
      novo == IF antigo THEN novoRegistroAntigo(id, c.cidadeId, b)
              ELSE novoRegistro(id, c.cidadeId, b)
  IN IF c.status # 0
       THEN [r |-> feito(c.status, SemDados, c.chamadas, c.falhou), tab |-> parceiros]
     ELSE IF o3 # "ok"
       THEN [r |-> feito(500, SemDados, 3, 1), tab |-> parceiros]
     ELSE [r |-> feito(200, [SemDados EXCEPT !.itens = {id}], 3, 0),
           tab |-> Append(parceiros, novo)]

\* the handler of GET /api/admin/parceiros/:regiaoSlug/:cidadeSlug; the order of
\* .order("nome") is the collation's, the response is kept as the set of listed ids
listarParceiros(regiaoSlug, cidadeSlug, f, t) ==
  LET c == resolverCidade(regiaoSlug, cidadeSlug, f, t)
      o3 == resultadoDaChamada(3, f, t)
      ids == {parceiros[k].id : k \in {j \in 1..Len(parceiros) :
                                        parceiros[j].cidade_id = c.cidadeId}}
  IN IF c.status # 0 THEN feito(c.status, SemDados, c.chamadas, c.falhou)
     ELSE IF o3 # "ok" THEN feito(500, SemDados, 3, 1)
     ELSE feito(200, [SemDados EXCEPT !.itens = ids], 3, 0)

\* POST /api/admin/parceiros
AdminCriarParceiro ==
  /\ revisao = "src/server/index.js"
  /\ AdmPronto
  /\ turnos' = turnos + 1
  /\ \E h \in Cabecalhos, rs \in Slugs, cs \in SlugsDeCidade, b \in CorposDeParceiro,
        f \in FalhasPossiveis(3), t \in ModosDeFalha :
       LET c == criarParceiro(rs, cs, b, f, t, FALSE)
           r == IF exigirAdminKey(h, adminApiKey) THEN c.r ELSE naoAutorizado
       IN /\ adm' = respondido("POST /api/admin/parceiros", h, r)
          /\ parceiros' = IF exigirAdminKey(h, adminApiKey) THEN c.tab ELSE parceiros
          /\ falhas' = falhas + r.falhou
  /\ UNCHANGED << regioes, cidades, conversas, memoriaConversas, interacoes, parceiro_views,
                  buscas_texto, eventos_analytics, config, req, fb, fn, gemini, proxConv >>

\* GET /api/admin/parceiros/:regiaoSlug/:cidadeSlug
AdminListarParceiros ==
  /\ revisao = "src/server/index.js"
  /\ AdmPronto
  /\ turnos' = turnos + 1
  /\ \E h \in Cabecalhos, rs \in Slugs, cs \in SlugsDeCidade,
        f \in FalhasPossiveis(3), t \in ModosDeFalha :
       LET r == IF exigirAdminKey(h, adminApiKey) THEN listarParceiros(rs, cs, f, t)
                ELSE naoAutorizado
       IN /\ adm' = respondido("GET /api/admin/parceiros", h, r)
          /\ falhas' = falhas + r.falhou
  /\ UNCHANGED << tabelas, config, req, fb, fn, gemini, proxConv >>

\* the handler of PUT /api/admin/parceiros/:id:
\* update(atualizacao).eq("id", id).select("*").single()
editarParceiro(id, b, f, t) ==
  LET o1 == resultadoDaChamada(1, f, t)
      ks == {k \in 1..Len(parceiros) : parceiros[k].id = id}
  IN IF o1 # "ok" THEN [r |-> feito(500, SemDados, 1, 1), tab |-> parceiros]
     ELSE IF Cardinality(ks) # 1 THEN [r |-> feito(500, SemDados, 1, 0), tab |-> parceiros]
     ELSE [r |-> feito(200, [SemDados EXCEPT !.itens = {id}], 1, 0),
           tab |-> [k \in 1..Len(parceiros) |->
                      IF k \in ks THEN atualizacao(parceiros[k], b) ELSE parceiros[k]]]

\* the ids a PUT may carry in its path (the last one is no item)
IdsDeParceiro == {1, 9}

\* PUT /api/admin/parceiros/:id
AdminEditarParceiro ==
  /\ revisao = "src/server/index.js"
  /\ AdmPronto
  /\ turnos' = turnos + 1
  /\ \E h \in Cabecalhos, id \in IdsDeParceiro, b \in CorposDeParceiro,
        f \in FalhasPossiveis(1), t \in ModosDeFalha :
       LET c == editarParceiro(id, b, f, t)
           r == IF exigirAdminKey(h, adminApiKey) THEN c.r ELSE naoAutorizado
       IN /\ adm' = respondido("PUT /api/admin/parceiros/:id", h, r)
          /\ parceiros' = IF exigirAdminKey(h, adminApiKey) THEN c.tab ELSE parceiros
          /\ falhas' = falhas + r.falhou
  /\ UNCHANGED << regioes, cidades, conversas, memoriaConversas, interacoes, parceiro_views,
                  buscas_texto, eventos_analytics, config, req, fb, fn, gemini, proxConv >>

\* const { ativo = true } = req.body; Boolean(ativo)
ativoDoCorpo(ativo) == ativo # "false"

\* the handler of POST /api/admin/regioes
criarRegiao(nome, slug, ativo, f, t) ==
  LET o1 == resultadoDaChamada(1, f, t)
      id == Len(regioes) + 1
  IN IF Falsy(nome) \/ Falsy(slug) THEN [r |-> feito(400, SemDados, 0, 0), tab |-> regioes]
     ELSE IF o1 # "ok" THEN [r |-> feito(500, SemDados, 1, 1), tab |-> regioes]
     ELSE [r |-> feito(200, SemDados, 1, 0),
           tab |-> Append(regioes, [id |-> id, nome |-> nome, slug |-> slug,
                                    ativo |-> ativoDoCorpo(ativo)])]

\* the names and slugs of a new region or city (absent, or a text)
NomesNovos == { NULO, <<"S","u","l">> }

SlugsNovos == { NULO, <<"s","u","l">> }

\* POST /api/admin/regioes
AdminCriarRegiao ==
  /\ revisao = "src/server/index.js"
  /\ AdmPronto
  /\ turnos' = turnos + 1
  /\ \E h \in Cabecalhos, nome \in NomesNovos, slug \in SlugsNovos, ativo \in Ativos,
        f \in FalhasPossiveis(1), t \in ModosDeFalha :
       LET c == criarRegiao(nome, slug, ativo, f, t)
           r == IF exigirAdminKey(h, adminApiKey) THEN c.r ELSE naoAutorizado
       IN /\ adm' = respondido("POST /api/admin/regioes", h, r)
          /\ regioes' = IF exigirAdminKey(h, adminApiKey) THEN c.tab ELSE regioes
          /\ falhas' = falhas + r.falhou
  /\ UNCHANGED << cidades, parceiros, conversas, memoriaConversas, interacoes, parceiro_views,
                  buscas_texto, eventos_analytics, config, req, fb, fn, gemini, proxConv >>

\* the handler of POST /api/admin/cidades
criarCidade(regiaoSlug, nome, slug, ativo, f, t) ==
  LET o1 == resultadoDaChamada(1, f, t)
      o2 == resultadoDaChamada(2, f, t)
      regs == regioesPorSlug(regiaoSlug)
      id == Len(cidades) + 1
  IN IF Falsy(regiaoSlug) \/ Falsy(nome) \/ Falsy(slug)
       THEN [r |-> feito(400, SemDados, 0, 0), tab |-> cidades]
     ELSE IF o1 = "throw" THEN [r |-> feito(500, SemDados, 1, 1), tab |-> cidades]
     ELSE IF o1 = "err" \/ Len(regs) # 1
       THEN [r |-> feito(400, SemDados, 1, Falhou(o1)), tab |-> cidades]
     ELSE IF o2 # "ok" THEN [r |-> feito(500, SemDados, 2, 1), tab |-> cidades]
     ELSE [r |-> feito(200, SemDados, 2, 0),
           tab |-> Append(cidades, [id |-> id, regiao_id |-> regs[1].id, nome |-> nome,
                                    slug |-> slug, ativo |-> ativoDoCorpo(ativo)])]

\* POST /api/admin/cidades
AdminCriarCidade ==
  /\ revisao = "src/server/index.js"
  /\ AdmPronto
  /\ turnos' = turnos + 1
  /\ \E h \in Cabecalhos, rs \in Slugs \cup {NULO}, nome \in NomesNovos, slug \in SlugsNovos,
        ativo \in Ativos, f \in FalhasPossiveis(2), t \in ModosDeFalha :
       LET c == criarCidade(rs, nome, slug, ativo, f, t)
           r == IF exigirAdminKey(h, adminApiKey) THEN c.r ELSE naoAutorizado
       IN /\ adm' = respondido("POST /api/admin/cidades", h, r)
          /\ cidades' = IF exigirAdminKey(h, adminApiKey) THEN c.tab ELSE cidades
          /\ falhas' = falhas + r.falhou
  /\ UNCHANGED << regioes, parceiros, conversas, memoriaConversas, interacoes, parceiro_views,
                  buscas_texto, eventos_analytics, config, req, fb, fn, gemini, proxConv >>

\* the results .order("views_total", { ascending: false }) may give: every arrangement
\* of the rows in which views_total never grows (the order among equals is the database's)
OrdensPorViews(tab) ==
  { [k \in 1..Len(tab) |-> tab[p[k]]] :
      p \in { q \in [1..Len(tab) -> 1..Len(tab)] :
                /\ \A i, j \in 1..Len(tab) : i # j => q[i] # q[j]
                /\ \A i \in 1..(Len(tab) - 1) :
                     tab[q[i]].views_total >= tab[q[i + 1]].views_total } }

\* topFiltrado: the rows whose item is known and of the target cities, the first five
topFiltrado(views, info, cidadeIds) ==
  LET conhecido(v) == \E k \in 1..Len(info) : info[k].id = v.parceiro_id
      infoDe(v) == info[CHOOSE k \in 1..Len(info) : info[k].id = v.parceiro_id]
      filtrado == SelectSeq(views, LAMBDA v : conhecido(v) /\ infoDe(v).cidade_id \in cidadeIds)
      cinco == slice(filtrado, 5)
  IN [k \in 1..Len(cinco) |->
        [parceiro_id |-> cinco[k].parceiro_id,
         nome |-> OuPadrao(infoDe(cinco[k]).nome, <<"--">>),
         categoria |-> OuPadrao(infoDe(cinco[k]).categoria, <<"--">>),
         views_total |-> cinco[k].views_total]]

\* the handler of GET /api/admin/metrics/summary (calls 1 to 7)
resumoDeMetricas(regiaoSlug, cidadeSlug, ordem, f, t) ==
  LET o(k) == resultadoDaChamada(k, f, t)
      regs == regioesPorSlug(regiaoSlug)
      cids == SelectSeq(cidades, LAMBDA c : c.regiao_id = regs[1].id)
      cidade == cidadePorSlug(cids, cidadeSlug)
      cidadeIds == IF Falsy(cidadeSlug) THEN {cids[k].id : k \in 1..Len(cids)} ELSE {cidade}
      ativos == SelectSeq(parceiros, LAMBDA p : p.ativo /\ p.cidade_id \in cidadeIds)
      buscas == SelectSeq(buscas_texto, LAMBDA b :
                  b.regiao_id = regs[1].id /\ (Falsy(cidadeSlug) \/ b.cidade_id = cidade))
      inter == SelectSeq(interacoes, LAMBDA i : i.regiao_id = regs[1].id)
      views == slice(ordem, 50)
      info == IF o(7) = "ok"
                THEN SelectSeq(parceiros, LAMBDA p :
                       \E k \in 1..Len(views) : views[k].parceiro_id = p.id)
                ELSE <<>>
      falhaEm(k) == feito(500, SemDados, k, 1)
  IN IF Falsy(regiaoSlug) THEN feito(400, SemDados, 0, 0)
     ELSE IF o(1) = "throw" THEN falhaEm(1)
     ELSE IF o(1) = "err" \/ Len(regs) # 1 THEN feito(404, SemDados, 1, Falhou(o(1)))
     ELSE IF o(2) # "ok" THEN falhaEm(2)
     ELSE IF ~Falsy(cidadeSlug) /\ cidade = 0 THEN feito(404, SemDados, 2, 0)
     ELSE IF o(3) # "ok" THEN falhaEm(3)
     ELSE IF o(4) # "ok" THEN falhaEm(4)
     ELSE IF o(5) # "ok" THEN falhaEm(5)
     ELSE IF o(6) # "ok" THEN falhaEm(6)
     ELSE IF o(7) = "throw" THEN falhaEm(7)
     ELSE feito(200,
                [SemDados EXCEPT
                   !.totais = << Len(ativos), Len(buscas), Len(inter) >>,
                   !.top5 = topFiltrado(views, info, cidadeIds)],
                7, Falhou(o(7)))

\* GET /api/admin/metrics/summary
AdminMetricas ==
  /\ revisao = "src/server/index.js"
  /\ AdmPronto
  /\ turnos' = turnos + 1
  /\ \E h \in Cabecalhos, rs \in Slugs \cup {NULO}, cs \in SlugsDeCidade \cup {NULO},
        ordem \in OrdensPorViews(parceiro_views),
        f \in FalhasPossiveis(7), t \in ModosDeFalha :
       LET r == IF exigirAdminKey(h, adminApiKey) THEN resumoDeMetricas(rs, cs, ordem, f, t)
                ELSE naoAutorizado
       IN /\ adm' = respondido("GET /api/admin/metrics/summary", h, r)
          /\ falhas' = falhas + r.falhou
  /\ UNCHANGED << tabelas, config, req, fb, fn, gemini, proxConv >>

\* let lim = Number(limit || 50); if (lim <= 0) lim = 50; if (lim > 200) lim = 200
limiteDeLogs(limit) == IF limit <= 0 THEN 50 ELSE IF limit > 200 THEN 200 ELSE limit

\* Array.prototype.reverse: .order("created_at", { ascending: false })
maisRecentesPrimeiro(tab) == [k \in 1..Len(tab) |-> tab[Len(tab) + 1 - k]]

\* the handler of GET /api/admin/logs (calls 1 to 3; the filters since and until
\* compare created_at, which the rows here do not keep)
consultarLogs(tipo, regiaoSlug, cidadeSlug, parceiroId, limit, f, t) ==
  LET o(k) == resultadoDaChamada(k, f, t)
      regs == regioesPorSlug(regiaoSlug)
      cids == cidadesPorSlug(regs[1].id, cidadeSlug)
      comCidade == ~Falsy(cidadeSlug) /\ ~Falsy(regiaoSlug)
      linhas == SelectSeq(maisRecentesPrimeiro(eventos_analytics), LAMBDA e :
                  /\ tipo = "" \/ e.tipo_evento = tipo
                  /\ Falsy(regiaoSlug) \/ e.regiao_id = regs[1].id
                  /\ ~comCidade \/ e.cidade_id = cids[1].id
                  /\ parceiroId = 0 \/ e.parceiro_id = parceiroId)
  IN IF ~Falsy(regiaoSlug) /\ (o(1) # "ok" \/ Len(regs) # 1)
       THEN feito(500, SemDados, 1, Falhou(o(1)))
     ELSE IF comCidade /\ (o(2) # "ok" \/ Len(cids) # 1)
       THEN feito(500, SemDados, 2, Falhou(o(2)))
     ELSE IF o(3) # "ok" THEN feito(500, SemDados, 3, 1)
     ELSE feito(200, [SemDados EXCEPT !.eventos = slice(linhas, limiteDeLogs(limit))], 3, 0)

\* the tipo filters of a logs request ("": absent)
TiposDeEvento == { "", "search" }

\* the limit of a logs request (0: absent)
Limites == { 0, 1 }

\* GET /api/admin/logs
AdminLogs ==
  /\ revisao = "src/server/index.js"
  /\ AdmPronto
  /\ turnos' = turnos + 1
  /\ \E h \in Cabecalhos, tipo \in TiposDeEvento, rs \in Slugs \cup {NULO},
        cs \in SlugsDeCidade \cup {NULO}, pid \in {0, 1}, limit \in Limites,
        f \in FalhasPossiveis(3), t \in ModosDeFalha :
       LET r == IF exigirAdminKey(h, adminApiKey)
                  THEN consultarLogs(tipo, rs, cs, pid, limit, f, t)
                ELSE naoAutorizado
       IN /\ adm' = respondido("GET /api/admin/logs", h, r)
          /\ falhas' = falhas + r.falhou
  /\ UNCHANGED << tabelas, config, req, fb, fn, gemini, proxConv >>

\* POST /api/admin/parceiros of the older server.js: no middleware before the handler
AdminCriarParceiroAntigo ==
  /\ revisao = "src/unnamed/part_001"
  /\ AdmPronto
  /\ turnos' = turnos + 1
  /\ \E h \in Cabecalhos, rs \in Slugs, cs \in SlugsDeCidade, b \in CorposDeParceiro,
        f \in FalhasPossiveis(3), t \in ModosDeFalha :
       LET c == criarParceiro(rs, cs, b, f, t, TRUE)
       IN /\ adm' = respondido("POST /api/admin/parceiros", h, c.r)
          /\ parceiros' = c.tab
          /\ falhas' = falhas + c.r.falhou
  /\ UNCHANGED << regioes, cidades, conversas, memoriaConversas, interacoes, parceiro_views,
                  buscas_texto, eventos_analytics, config, req, fb, fn, gemini, proxConv >>

\* GET /api/admin/parceiros/:regiaoSlug/:cidadeSlug of the older server.js
AdminListarParceirosAntigo ==
  /\ revisao = "src/unnamed/part_001"
  /\ AdmPronto
  /\ turnos' = turnos + 1
  /\ \E h \in Cabecalhos, rs \in Slugs, cs \in SlugsDeCidade,
        f \in FalhasPossiveis(3), t \in ModosDeFalha :
       LET r == listarParceiros(rs, cs, f, t)
       IN /\ adm' = respondido("GET /api/admin/parceiros", h, r)
          /\ falhas' = falhas + r.falhou
  /\ UNCHANGED << tabelas, config, req, fb, fn, gemini, proxConv >>

Admin ==
  \/ AdminCriarParceiro
  \/ AdminListarParceiros
  \/ AdminEditarParceiro
  \/ AdminCriarRegiao
  \/ AdminCriarCidade
  \/ AdminMetricas
  \/ AdminLogs
  \/ AdminCriarParceiroAntigo
  \/ AdminListarParceirosAntigo

NextAdmin == Admin

SpecAdmin == InitEmUso /\ [][NextAdmin]_vars

\* ------------------------------------------------------------------------
\* The helper functions called on their own
\* ------------------------------------------------------------------------
foraDasFuncoes == << tabelas, config, req, fb, adm, gemini, proxConv, turnos, falhas >>

\* a b: two texts with one space between them
Frase(a, b) == IF Len(a) = 0 THEN b ELSE IF Len(b) = 0 THEN a ELSE a \o <<" ">> \o b

\* words of every intent, and some of none
PalavrasDeIntencao ==
  { <<>>, <<"o","i">>, <<"r","o","t","e","i","r","o">>, <<"2"," ","d","i","a","s">>, <<"H","o","r","á","r","i","o">>, <<"a","b","r","e">>, <<"O","N","D","E"," ","F","I","C","A">>, <<"w","h","a","t","s","a","p","p">>,
    <<"f","o","t","o","s">>, <<"p","r","e","ç","o">>, <<"c","a","f","é">>, <<"l","o","t","a","ç","ã","o">>, <<"t","r","â","n","s","i","t","o">>, <<"h","o","r","a","r","i","o"," ","b","o","m">>, <<"E","v","i","t","a","r">> }

TextosDeIntencao == {Frase(a, b) : a \in PalavrasDeIntencao, b \in PalavrasDeIntencao}

\* detectarIntencao(texto)
ChamarDetectarIntencao ==
  /\ fn.op = "nenhuma"
  /\ \E t \in TextosDeIntencao :
       fn' = [FnLivre EXCEPT !.op = "detectarIntencao", !.texto = t,
                             !.intencao = detectarIntencao(t)]
  /\ UNCHANGED foraDasFuncoes

\* the texts of a choice: words, a marker, a number, words
PrefixosDeEscolha == { <<>>, <<"q","u","e","r","o"," ","a"," ">>, <<"a","n","o"," ","2","0","2","4",","," ">> }

MarcadoresDeEscolha == { <<>>, <<"o","p","ç","ã","o">>, <<"O","p","c","a","o">>, <<"n","ú","m","e","r","o">>, <<"#">> }

SeparadoresDeEscolha == { <<>>, <<" ">> }

NumerosDeEscolha == {0, 1, 2, 10, 100}

SufixosDeEscolha == { <<>>, <<" ","p","o","r"," ","f","a","v","o","r">>, <<" ","o","u"," ","o"," ","p","r","i","m","e","i","r","o">> }

\* String(n)
RECURSIVE Decimal(_)
Decimal(n) == IF n < 10 THEN <<Digitos[n + 1]>> ELSE Decimal(n \div 10) \o <<Digitos[(n % 10) + 1]>>

\* extrairIndiceEscolhido(texto)
ChamarExtrairIndice ==
  /\ fn.op = "nenhuma"
  /\ \E p \in PrefixosDeEscolha, m \in MarcadoresDeEscolha, s \in SeparadoresDeEscolha,
        n \in NumerosDeEscolha, u \in SufixosDeEscolha :
       LET t == p \o m \o s \o Decimal(n) \o u
       IN fn' = [FnLivre EXCEPT !.op = "extrairIndiceEscolhido", !.texto = t, !.marcador = m,
                                !.numero = n, !.indice = extrairIndiceEscolhido(t)]
  /\ UNCHANGED foraDasFuncoes

\* ------------------------------------------------------------------------
\* tentarAcharParceiroPorNomeOuCategoria (the server revision with the fuzzy match)
\* ------------------------------------------------------------------------
\* normalizar(s) of a field that may be null: String(s || "")
normalizarCampo(v) == normalizar(OuPadrao(v, <<>>))

\* bigrams(str): the slices s.slice(i, i + 2) for i < s.length - 1
bigrams(str) ==
  LET s == normalizarCampo(str)
  IN [i \in 1..(IF Len(s) > 0 THEN Len(s) - 1 ELSE 0) |-> <<s[i], s[i + 1]>>]

\* for (const g of B) { const v = freq.get(g) || 0; if (v > 0) { inter += 1; freq.set(g, v - 1); } }
RECURSIVE intersecao(_, _, _)
intersecao(freq, B, inter) ==
  IF Len(B) = 0 THEN inter
  ELSE IF freq[B[1]] > 0
    THEN intersecao([freq EXCEPT ![B[1]] = @ - 1], Tail(B), inter + 1)
  ELSE intersecao(freq, Tail(B), inter)

\* a score is the fraction num / den
Zero == [num |-> 0, den |-> 1]

Maior(a, b) == a.num * b.den > b.num * a.den

\* Math.max(a, b)
max(a, b) == IF Maior(b, a) THEN b ELSE a

\* a similarity that forgets the factor 2
diceSemDobro(a, b) ==
  LET A == bigrams(a)
      B == bigrams(b)
      grams == {A[i] : i \in 1..Len(A)} \cup {B[i] : i \in 1..Len(B)}
      freq == [g \in grams |-> Cardinality({i \in 1..Len(A) : A[i] = g})]
  IN IF Len(A) = 0 \/ Len(B) = 0 THEN Zero
     ELSE [num |-> intersecao(freq, B, 0), den |-> Len(A) + Len(B)]

\* diceSimilarity(a, b) == (2 * inter) / (A.length + B.length)
diceSimilarity(a, b) ==
  LET A == bigrams(a)
      B == bigrams(b)
      grams == {A[i] : i \in 1..Len(A)} \cup {B[i] : i \in 1..Len(B)}
      freq == [g \in grams |-> Cardinality({i \in 1..Len(A) : A[i] = g})]
  IN IF Len(A) = 0 \/ Len(B) = 0 THEN Zero
     ELSE [num |-> 2 * intersecao(freq, B, 0), den |-> Len(A) + Len(B)]

sinonimos ==
  << <<"c","h","u","r","r","a","s","c","a","r","i","a">>, <<"p","i","z","z","a","r","i","a">>, <<"p","r","a","i","a">>, <<"r","e","s","t","a","u","r","a","n","t","e">>, <<"b","a","r">>, <<"b","a","l","a","d","a">>, <<"t","r","i","l","h","a">>,
     <<"m","e","r","g","u","l","h","o">> >>

\* 1) t.includes(nome) || nome.includes(t)
contemNome(t, p) ==
  includes(t, normalizarCampo(p.nome)) \/ includes(normalizarCampo(p.nome), t)

\* 2) the category, directly or through a synonym
contemCategoria(t, p) ==
  LET cat == normalizarCampo(p.categoria)
  IN /\ Len(cat) > 0
     /\ \/ includes(t, cat)
        \/ includes(cat, t)
        \/ \E k \in 1..Len(sinonimos) :
             includes(t, sinonimos[k]) /\ (includes(cat, sinonimos[k]) \/ includes(sinonimos[k], cat))

\* Math.max(diceSimilarity(t, nome), diceSimilarity(t, cat))
scoreDe(t, p) == max(diceSimilarity(t, p.nome), diceSimilarity(t, p.categoria))

\* 3) the loop over lista from position k on: if (score > melhorScore) { ... }
RECURSIVE melhorDe(_, _, _, _, _)
melhorDe(t, lista, k, melhor, melhorScore) ==
  IF k > Len(lista) THEN [melhor |-> melhor, melhorScore |-> melhorScore]
  ELSE IF Maior(scoreDe(t, lista[k]), melhorScore)
    THEN melhorDe(t, lista, k + 1, <<lista[k]>>, scoreDe(t, lista[k]))
  ELSE melhorDe(t, lista, k + 1, melhor, melhorScore)

\* melhorScore >= 0.45
PassaDoLimiar(score) == 100 * score.num >= 45 * score.den

\* for (const p of lista || []) { ... if (t.includes(nome) || nome.includes(t)) return p; }
primeiroPorNome(t, lista) ==
  LET ks == {k \in 1..Len(lista) : contemNome(t, lista[k])}
  IN IF ks = {} THEN SemFoco ELSE <<lista[CHOOSE k \in ks : \A j \in ks : k <= j]>>

\* for (const p of lista || []) { ... return p; } of the category step
primeiroPorCategoria(t, lista) ==
  LET ks == {k \in 1..Len(lista) : contemCategoria(t, lista[k])}
  IN IF ks = {} THEN SemFoco ELSE <<lista[CHOOSE k \in ks : \A j \in ks : k <= j]>>

tentarAcharParceiroPorNomeOuCategoria(texto, lista) ==
  LET t == normalizar(texto)
      porNome == primeiroPorNome(t, lista)
      porCategoria == primeiroPorCategoria(t, lista)
      fuzzy == melhorDe(t, lista, 1, SemFoco, Zero)
  IN IF Len(t) = 0 THEN SemFoco
     ELSE IF porNome # SemFoco THEN porNome
     ELSE IF porCategoria # SemFoco THEN porCategoria
     ELSE IF PassaDoLimiar(fuzzy.melhorScore) THEN fuzzy.melhor
     ELSE SemFoco

\* the candidates of a choice by name
CandidatosDeNome ==
  { [id |-> 1, nome |-> <<"S","o","l">>, categoria |-> <<"c","h","u","r","r","a","s","c","a","r","i","a">>],
    [id |-> 2, nome |-> <<"M","a","r"," ","A","z","u","l">>, categoria |-> <<"b","a","r","z","i","n","h","o">>],
    [id |-> 3, nome |-> <<"P","a","o">>, categoria |-> NULO],
    [id |-> 4, nome |-> <<"L","u","a">>, categoria |-> <<"P","i","z","z","a","r","i","a">>] }

\* the lists of up to three different candidates
ListasDeCandidatos ==
  { <<>> } \cup { <<a>> : a \in CandidatosDeNome }
    \cup { <<c[1], c[2]>> : c \in { d \in CandidatosDeNome \X CandidatosDeNome : d[1] # d[2] } }
    \cup { <<c[1], c[2], c[3]>> :
             c \in { d \in CandidatosDeNome \X CandidatosDeNome \X CandidatosDeNome :
                       d[1] # d[2] /\ d[1] # d[3] /\ d[2] # d[3] } }

TextosDeNome ==
  { <<"c","h","u","r","a","s","c","a","r","i","a">>, <<"u","m"," ","b","a","r">>, <<"p","i","z","a","r","i","a">>, <<"s","o","l">>, <<"M","a","r","z","u","l">>, <<"x","y","z">>, <<"l","u","a","r">>, <<"p","r","a","i","a">>,
    <<"c","h","u","r","r","a","s">>, <<"p","ã","o"," ","d","e"," ","s","a","l">>, <<"b","a","z","i","n","h","o">>, <<" "," ">> }

\* tentarAcharParceiroPorNomeOuCategoria(texto, lista)
ChamarTentarAchar ==
  /\ fn.op = "nenhuma"
  /\ \E t \in TextosDeNome, lista \in ListasDeCandidatos :
       fn' = [FnLivre EXCEPT !.op = "tentarAcharParceiroPorNomeOuCategoria", !.texto = t,
                             !.lista = lista,
                             !.achado = tentarAcharParceiroPorNomeOuCategoria(t, lista)]
  /\ UNCHANGED foraDasFuncoes

\* ------------------------------------------------------------------------
\* the item search with the tag queries (the server revision that merges them)
\* ------------------------------------------------------------------------
\* x.nome?.toLowerCase()
minusculaOuIndefinido(v) == IF v = NULO THEN NULO ELSE toLowerCase(v)

\* (x.categoria || "").toLowerCase()
minusculaOuVazio(v) == toLowerCase(OuPadrao(v, <<>>))

\* itens.some((x) => same lowercased nome, categoria and endereco as p)
jaExiste(itens, p) ==
  \E k \in 1..Len(itens) :
    /\ minusculaOuIndefinido(itens[k].nome) = minusculaOuIndefinido(p.nome)
    /\ minusculaOuVazio(itens[k].categoria) = minusculaOuVazio(p.categoria)
    /\ minusculaOuVazio(itens[k].endereco) = minusculaOuVazio(p.endereco)

\* the rows of select ... .eq("ativo", true).in("cidade_id", cidadeIds).contains("tags", [t])
consultarPorTag(tab, cidadeIds, t) ==
  SelectSeq(tab, LAMBDA p :
    /\ p.ativo
    /\ p.cidade_id \in cidadeIds
    /\ \E k \in 1..Len(p.tags) : p.tags[k] = t)

\* for (const p of itensTag) { if (!jaExiste) itens.push(p); }
RECURSIVE juntarItensTag(_, _)
juntarItensTag(itens, itensTag) ==
  IF Len(itensTag) = 0 THEN itens
  ELSE IF jaExiste(itens, itensTag[1]) THEN juntarItensTag(itens, Tail(itensTag))
  ELSE juntarItensTag(Append(itens, itensTag[1]), Tail(itensTag))

\* for (const t of termos) { ... if (!erroTag && Array.isArray(itensTag)) ... }
RECURSIVE juntarPorTermos(_, _, _, _, _)
juntarPorTermos(itens, tab, cidadeIds, termos, erroTag) ==
  IF Len(termos) = 0 THEN itens
  ELSE juntarPorTermos(
         IF erroTag THEN itens
         ELSE juntarItensTag(itens, consultarPorTag(tab, cidadeIds, termos[1])),
         tab, cidadeIds, Tail(termos), erroTag)

\* 9) the wildcard query, then the tag query of every term, without duplicating
buscarItens(tab, cidadeIds, termos, erroTag) ==
  juntarPorTermos(consultarItens(tab, cidadeIds, termos), tab, cidadeIds, termos, erroTag)

\* the rows of the item table of a search
LinhasDeItem ==
  { [id |-> 1, nome |-> <<"B","a","r"," ","S","o","l">>, categoria |-> <<"b","a","r">>, endereco |-> <<"R","u","a"," ","A">>,
     tags |-> <<<<"b","a","r">>>>, ativo |-> TRUE, cidade_id |-> 1],
    [id |-> 2, nome |-> <<"b","a","r"," ","s","o","l">>, categoria |-> <<"B","a","r">>, endereco |-> <<"r","u","a"," ","a">>,
     tags |-> <<<<"b","a","r">>>>, ativo |-> TRUE, cidade_id |-> 1],
    [id |-> 3, nome |-> <<"M","a","r">>, categoria |-> <<"p","e","i","x","e">>, endereco |-> NULO,
     tags |-> <<<<"b","a","r">>>>, ativo |-> TRUE, cidade_id |-> 1],
    [id |-> 4, nome |-> <<"M","A","R">>, categoria |-> <<"P","e","i","x","e">>, endereco |-> <<>>,
     tags |-> <<<<"b","a","l","a","d","a">>, <<"b","a","r">>>>, ativo |-> TRUE, cidade_id |-> 2],
    [id |-> 5, nome |-> <<"L","u","a">>, categoria |-> NULO, endereco |-> <<"R","u","a"," ","C">>,
     tags |-> <<<<"b","a","l","a","d","a">>>>, ativo |-> FALSE, cidade_id |-> 1] }

\* the tables of up to three different rows
TabelasDeItem ==
  { <<>> } \cup { <<a>> : a \in LinhasDeItem }
    \cup { <<c[1], c[2]>> : c \in { d \in LinhasDeItem \X LinhasDeItem : d[1].id # d[2].id } }
    \cup { <<c[1], c[2], c[3]>> :
             c \in { d \in LinhasDeItem \X LinhasDeItem \X LinhasDeItem :
                       d[1].id # d[2].id /\ d[1].id # d[3].id /\ d[2].id # d[3].id } }

TermosDeBusca == { <<>>, <<<<"b","a","r">>>>, <<<<"b","a","l","a","d","a">>, <<"b","a","r">>>> }

\* the item search of a fresh-search turn
ChamarBuscarItens ==
  /\ fn.op = "nenhuma"
  /\ \E tab \in TabelasDeItem, termos \in TermosDeBusca, cidadeIds \in {{1}, {1, 2}},
        erroTag \in BOOLEAN :
       fn' = [FnLivre EXCEPT !.op = "buscarItens", !.tabela = tab, !.termos = termos,
                             !.lista = buscarItens(tab, cidadeIds, termos, erroTag)]
  /\ UNCHANGED foraDasFuncoes

\* ------------------------------------------------------------------------
\* analisarEntradaUsuario
\* ------------------------------------------------------------------------
\* the try block throws: generateContent rejects, JSON.parse throws, or the parsed
\* value is null and reading parsed.corrigido throws
lancaNoTry(saida) == saida.tipo # "json"

\* analisarEntradaUsuario without the try/catch around the model call
analisarEntradaSemCatch(desligado, texto, cids, saida) ==
  IF desligado THEN [lancou |-> FALSE, analise |-> analisarSemGemini(texto, cids)]
  ELSE IF lancaNoTry(saida) THEN [lancou |-> TRUE, analise |-> AnaliseVazia(<<>>)]
  ELSE [lancou |-> FALSE, analise |-> analiseDoJson(saida.json, texto)]

\* analisarEntradaUsuario(texto, cidades), with DISABLE_GEMINI and the model's output
analisarEntradaUsuario(desligado, texto, cids, saida) ==
  IF desligado THEN [lancou |-> FALSE, analise |-> analisarSemGemini(texto, cids)]
  ELSE [lancou |-> FALSE, analise |-> analisarComGemini(saida, texto)]

\* the outputs of the model, and the JSON text "null"
SaidasDoModelo == SaidasDaAnalise \cup { [tipo |-> "nulo", json |-> JsonVazio] }

TextosDeEntrada ==
  { <<>>, <<"p","r","a","i","a">>, <<"p","i","z","z","a"," ","e","m"," ","B","ú","z","i","o","s">>, <<"b","a","r"," ","e","m"," ","C","A","B","O","-","F","R","I","O">>, <<"C","a","b","o"," ","F","r","i","o"," ","o","u"," ","b","u","z","i","o","s">>,
    <<"t","r","i","l","h","a"," ","e","m"," ","I","t","a","i","p","a","v","a"," ","e"," ","B","u","z","i","o","s">> }

\* the city lists a region may have
ListasDeCidades ==
  { <<>>, cidades, SubSeq(cidades, 1, 2), SubSeq(cidades, 3, 3),
    <<cidades[2], cidades[1]>>, <<cidades[3], cidades[1]>> }

\* analisarEntradaUsuario(texto, cidades)
ChamarAnalisarEntrada ==
  /\ fn.op = "nenhuma"
  /\ \E desligado \in BOOLEAN, texto \in TextosDeEntrada, cids \in ListasDeCidades,
        saida \in SaidasDoModelo :
       LET res == analisarEntradaUsuario(desligado, texto, cids, saida)
       IN fn' = [FnLivre EXCEPT !.op = "analisarEntradaUsuario", !.desligado = desligado,
                                !.texto = texto, !.cids = cids, !.saida = saida.tipo,
                                !.analise = res.analise, !.lancou = res.lancou]
  /\ UNCHANGED foraDasFuncoes

\* ------------------------------------------------------------------------
\* the top 5 of GET /api/admin/metrics/summary
\* ------------------------------------------------------------------------
\* TOP 5 por views: the first 50 rows of the ordered counter table, the items they
\* name, and topFiltrado
top5PorViews(ordem, tabItens, cidadeIds) ==
  LET views == slice(ordem, 50)
      info == SelectSeq(tabItens, LAMBDA p :
                \E k \in 1..Len(views) : views[k].parceiro_id = p.id)
  IN topFiltrado(views, info, cidadeIds)

\* n items of a city of another region
RECURSIVE ItensDeFora(_)
ItensDeFora(n) ==
  IF n = 0 THEN <<>>
  ELSE Append(ItensDeFora(n - 1),
              [id |-> 100 + n, nome |-> <<"V","a","l","e">>, categoria |-> <<"p","o","u","s","a","d","a">>, cidade_id |-> 3])

\* the counter rows of the first n of them, each with views views_total
ViewsDeFora(n, views) == [k \in 1..n |-> [parceiro_id |-> 100 + k, views_total |-> views]]

\* the items of the cities 1 and 2
ItensDaRegiao ==
  << [id |-> 1, nome |-> <<"S","o","l">>, categoria |-> <<"p","i","z","z","a","r","i","a">>, cidade_id |-> 1],
     [id |-> 2, nome |-> <<"M","a","r">>, categoria |-> NULO, cidade_id |-> 2],
     [id |-> 3, nome |-> <<"P","a","o">>, categoria |-> NULO, cidade_id |-> 1] >>

\* counter tables of the items of the region, ordered by views_total
ViewsDaRegiao ==
  { <<>>,
    << [parceiro_id |-> 2, views_total |-> 5], [parceiro_id |-> 1, views_total |-> 3] >>,
    << [parceiro_id |-> 3, views_total |-> 7], [parceiro_id |-> 1, views_total |-> 3],
       [parceiro_id |-> 2, views_total |-> 1] >> }

\* how many counter rows of other regions there are
LinhasDeFora == {0, 1, 2, 49, 50, 51}

\* the top 5 of the summary over a counter table
ChamarTopCinco ==
  /\ fn.op = "nenhuma"
  /\ \E n \in LinhasDeFora, viewsFora \in {4, 9}, daRegiao \in ViewsDaRegiao,
        cidadeIds \in {{1}, {1, 2}} :
       LET tab == ViewsDeFora(n, viewsFora) \o daRegiao
       IN \E ordem \in { o \in {tab, daRegiao \o ViewsDeFora(n, viewsFora),
                                  IF Len(daRegiao) = 0 THEN tab
                                  ELSE <<daRegiao[1]>> \o ViewsDeFora(n, viewsFora)
                                         \o Tail(daRegiao)} :
                            \A i \in 1..(Len(o) - 1) : o[i].views_total >= o[i + 1].views_total } :
            fn' = [FnLivre EXCEPT !.op = "top5PorViews", !.tabela = ordem,
                                  !.itens = ItensDaRegiao \o ItensDeFora(n),
                                  !.cidadeIds = cidadeIds,
                                  !.lista = top5PorViews(ordem, ItensDaRegiao \o ItensDeFora(n),
                                                         cidadeIds)]
  /\ UNCHANGED foraDasFuncoes

\* ------------------------------------------------------------------------
\* geminiGenerateWithFallback (the server revision with the model fallback)
\* ------------------------------------------------------------------------
\* GEMINI_CANDIDATES with GEMINI_MODEL unset
GEMINI_CANDIDATES ==
  << "gemini-1.5-flash-latest", "gemini-1.5-flash", "gemini-1.5-pro", "gemini-pro" >>

\* calls of geminiGenerateWithFallback in a run
MaxGeracoes == 3

\* what generateContent does: it resolves, it rejects with 404, 403, "not found",
\* "not supported" or "permission" (deveTentarProximo), or it rejects otherwise
ResultadosDaGeracao == {"ok", "tentarProximo", "outroErro"}

foraDoGemini == << tabelas, config, req, fb, adm, fn, proxConv, falhas >>

\* const listaTentativas = GEMINI_MODEL_RESOLVED ? [GEMINI_MODEL_RESOLVED] : GEMINI_CANDIDATES
IniciarGeracao(c) ==
  /\ geracoes[c].pc \in {"livre", "retornou", "lancou"}
  /\ turnos < MaxGeracoes
  /\ turnos' = turnos + 1
  /\ geracoes' = [geracoes EXCEPT ![c] =
       [pc |-> "tentando",
        listaTentativas |-> IF GEMINI_MODEL_RESOLVED # SemModelo THEN <<GEMINI_MODEL_RESOLVED>>
                            ELSE GEMINI_CANDIDATES,
        i |-> 1, tentados |-> <<>>, resolvidoNoInicio |-> GEMINI_MODEL_RESOLVED]]
  /\ UNCHANGED << GEMINI_MODEL_RESOLVED, foraDoGemini >>

\* one pass of the loop: await modelo.generateContent(promptText) and what follows it
TentarModelo(c) ==
  /\ geracoes[c].pc = "tentando"
  /\ \E resultado \in ResultadosDaGeracao :
       LET g == geracoes[c]
           nomeModelo == g.listaTentativas[g.i]
           h == [g EXCEPT !.tentados = Append(@, nomeModelo)]
           deveTentarProximo == resultado = "tentarProximo"
       IN IF resultado = "ok"
            THEN /\ GEMINI_MODEL_RESOLVED' = nomeModelo
                 /\ geracoes' = [geracoes EXCEPT ![c] = [h EXCEPT !.pc = "retornou"]]
          ELSE /\ UNCHANGED GEMINI_MODEL_RESOLVED
               /\ geracoes' = [geracoes EXCEPT ![c] =
                    IF ~deveTentarProximo /\ GEMINI_MODEL_RESOLVED # SemModelo
                      THEN [h EXCEPT !.pc = "lancou"]
                    ELSE IF g.i = Len(g.listaTentativas) THEN [h EXCEPT !.pc = "lancou"]
                    ELSE [h EXCEPT !.i = @ + 1]]
  /\ UNCHANGED << foraDoGemini, turnos >>

NextGemini == \E c \in Chamadas : IniciarGeracao(c) \/ TentarModelo(c)

SpecGemini == Init /\ [][NextGemini]_vars

NextFuncoes ==
  \/ ChamarDetectarIntencao
  \/ ChamarExtrairIndice
  \/ ChamarTentarAchar
  \/ ChamarBuscarItens
  \/ ChamarAnalisarEntrada
  \/ ChamarTopCinco

SpecFuncoes == Init /\ [][NextFuncoes]_vars

\* ------------------------------------------------------------------------
\* Chat turns of one client between admin edits of the items
\* ------------------------------------------------------------------------
NextEdicao ==
  \/ \E r \in UmPorVez : ChatJunto(r)
  \/ AdminEditarParceiro

SpecEdicao == InitSemFalhas /\ [][NextEdicao]_vars

\* ------------------------------------------------------------------------
\* Properties of the chat route
\* ------------------------------------------------------------------------
Terminou(r) == req[r].pc = "fim"

\* the conversation has been loaded (step 5 has run)
Carregou(r) == req[r].origemDaConversa # "nenhuma"

\* the conversation as the store it was loaded from holds it now
ConversaNaOrigem(r) ==
  IF req[r].origemDaConversa = "base"
    THEN [parceiro_em_foco |-> conversas[req[r].conversationId].parceiro_em_foco,
          parceiros_sugeridos |-> conversas[req[r].conversationId].parceiros_sugeridos]
    ELSE carregarConversaMem(memoriaConversas, req[r].conversationId)

\* a turn that loaded a focus X and whose message asks for a detail
TurnoDeDetalhe(r) ==
  /\ Terminou(r)
  /\ Carregou(r)
  /\ req[r].conversaAtual.parceiro_em_foco # SemFoco
  /\ detectarIntencao(req[r].message.valor) \in IntencoesDeDetalhe

\* the stored text field, or the fixed text when it is empty
CampoOuFixo(p, intencao) ==
  IF Falsy(CampoDaIntencao(p, intencao)) THEN NaoInformado(intencao)
  ELSE CampoDaIntencao(p, intencao)

\* every stored photo link occurs in the text
FotosNoTexto(texto, p) ==
  \A k \in 1..Len(ArrayOuVazio(p.fotos_parceiros)) : includes(texto, p.fotos_parceiros[k])

\* the turn wrote nothing to the conversation, which still holds what was loaded
ConversaIntacta(r) ==
  /\ req[r].escritasDeConversa = 0
  /\ ConversaNaOrigem(r) = req[r].conversaAtual

\* C1 as stated: a detail question about the focus X is answered 200 with a text that
\* contains X's name and the matching stored field of X, and the focus is still X.
C1_AsStated ==
  \A r \in Reqs :
    TurnoDeDetalhe(r) =>
      LET X == req[r].conversaAtual.parceiro_em_foco[1]
          i == detectarIntencao(req[r].message.valor)
      IN /\ req[r].resposta.status = 200
         /\ includes(req[r].resposta.reply, X.nome)
         /\ IF i = "fotos" THEN FotosNoTexto(req[r].resposta.reply, X)
            ELSE includes(req[r].resposta.reply, CampoOuFixo(X, i))
         /\ ConversaIntacta(r)

\* C1 amended: a detail question about the focus X is answered 200 with a text that
\* contains X's name; for horario, endereco, contato and preco the text also contains
\* the stored field (or the fixed text when it is empty); for fotos the text only says
\* whether X has photos and the stored photo list is returned in photoLinks; the turn
\* writes nothing to the conversation, whose focus is still X.
C1_FollowUp ==
  \A r \in Reqs :
    TurnoDeDetalhe(r) =>
      LET X == req[r].conversaAtual.parceiro_em_foco[1]
          i == detectarIntencao(req[r].message.valor)
      IN /\ req[r].resposta.status = 200
         /\ includes(req[r].resposta.reply, X.nome)
         /\ IF i = "fotos"
              THEN req[r].resposta.photoLinks = ArrayOuVazio(X.fotos_parceiros)
              ELSE includes(req[r].resposta.reply, CampoOuFixo(X, i))
         /\ ConversaIntacta(r)

\* a question about the opening hours of a focus that stores them has been answered
C1_Witness ==
  \E r \in Reqs :
    /\ TurnoDeDetalhe(r)
    /\ req[r].intencao = "horario"
    /\ ~Falsy(req[r].conversaAtual.parceiro_em_foco[1].horario_funcionamento)
    /\ includes(req[r].resposta.reply,
                req[r].conversaAtual.parceiro_em_foco[1].horario_funcionamento)

\* the body carries no usable message: missing, not a string, empty or only whitespace
SemMensagem(m) == m.tipo # "string" \/ \A k \in 1..Len(m.valor) : m.valor[k] \in Espacos

\* C3: a request whose message is missing, not a string, empty or only whitespace is
\* answered 400 in the step that receives it: no database call, no model call, no
\* conversation created, and the tables and memoriaConversas are left as they were.
C3_Validation ==
  [][\A r \in Reqs :
       (req[r].pc \in {"livre", "fim"} /\ req'[r] # req[r] /\ SemMensagem(req'[r].message)) =>
         /\ req'[r].pc = "fim"
         /\ req'[r].resposta.status = 400
         /\ ~req'[r].chamouBase
         /\ ~req'[r].chamouModelo
         /\ req'[r].resposta.conversationId = 0
         /\ proxConv' = proxConv
         /\ memoriaConversas' = memoriaConversas
         /\ UNCHANGED tabelas]_vars

\* a whitespace-only message has been refused
C3_Witness ==
  \E r \in Reqs :
    /\ Terminou(r)
    /\ req[r].message = Texto(<<" ", " ">>)
    /\ req[r].resposta.status = 400
    /\ ~req[r].chamouBase

\* the body of a feedback request the route must refuse
SemFeedback(q) ==
  \/ q.feedback.tipo # "string"
  \/ \A k \in 1..Len(q.feedback.valor) : q.feedback.valor[k] \in Espacos
  \/ q.interactionId.tipo # "string"

\* C5: a feedback request whose feedback is empty, only whitespace, missing or not a
\* string, or whose interactionId is missing or not a string, is answered 400 in the step
\* that receives it, with no database call and every table left as it was.
C5_Feedback ==
  [][(fb.pc \in {"livre", "fim"} /\ fb' # fb /\ SemFeedback(fb')) =>
       /\ fb'.pc = "fim"
       /\ fb'.status = 400
       /\ ~fb'.chamouBase
       /\ UNCHANGED tabelas]_vars

\* a whitespace-only feedback for an existing interaction has been refused
C5_Witness ==
  /\ fb.pc = "fim"
  /\ fb.status = 400
  /\ fb.interactionId = Texto(IdDaInteracao(1))
  /\ fb.feedback = Texto(<<" ", " ">>)
  /\ ~fb.chamouBase

\* the header carries the configured secret
ChaveConfere(header) == ~Falsy(header) /\ ~Falsy(adminApiKey) /\ header = adminApiKey

\* C6: an admin request whose X-Admin-Key is absent or differs from the configured
\* secret (also when none is configured) is answered 401 and reaches no table.
C6_AsStated ==
  (adm.pc = "fim" /\ ~ChaveConfere(adm.header)) => (adm.status = 401 /\ ~adm.chamouBase)

\* a turn whose message picks entry i of the n > 0 loaded suggestions
TurnoDeSelecao(r) ==
  /\ Terminou(r)
  /\ Carregou(r)
  /\ Len(req[r].conversaAtual.parceiros_sugeridos) > 0
  /\ detectarIntencao(req[r].message.valor) = "nenhuma"
  /\ extrairIndiceEscolhido(req[r].message.valor) \in
       0..(Len(req[r].conversaAtual.parceiros_sugeridos) - 1)

\* the item is the focus of the conversation in the table or in the map
FocoGuardado(id, item) ==
  \/ conversas[id].existe /\ conversas[id].parceiro_em_foco = <<item>>
  \/ memoriaConversas[id].existe /\ memoriaConversas[id].parceiro_em_foco = <<item>>

\* C2: a message that picks entry i of the loaded suggestions is answered 200 with the
\* summary of suggestions[i], which becomes the stored focus; the suggestion list is
\* unchanged and no item search runs.
C2_AsStated ==
  \A r \in Reqs :
    TurnoDeSelecao(r) =>
      LET escolhido == req[r].conversaAtual.parceiros_sugeridos[
                         extrairIndiceEscolhido(req[r].message.valor) + 1]
      IN /\ req[r].resposta.status = 200
         /\ req[r].resposta.reply = resumoDoParceiro(<<escolhido>>)
         /\ FocoGuardado(req[r].conversationId, escolhido)
         /\ ConversaNaOrigem(r).parceiros_sugeridos = req[r].conversaAtual.parceiros_sugeridos
         /\ ~req[r].buscouItens

\* C4: a failure of the region query ends in 500; 404 only for an unknown slug.
C4_AsStated ==
  \A r \in Reqs :
    Terminou(r) =>
      /\ req[r].resultadoRegiao \in {"err", "throw"} => req[r].resposta.status = 500
      /\ req[r].resposta.status = 404 =>
           /\ req[r].resultadoRegiao = "ok"
           /\ \A k \in 1..Len(regioes) : regioes[k].slug # req[r].slugDaRegiao

\* C7: every turn that ends in 200 has attempted an insert into interacoes.
C7_AsStated ==
  \A r \in Reqs :
    Terminou(r) /\ req[r].resposta.status = 200 => req[r].insercoesDeInteracao >= 1

\* what the turn answers when every side write succeeds
RespostaSemFalha(r) ==
  IF req[r].ramo = "followup"
    THEN respostaDireta(req[r].conversaAtual.parceiro_em_foco[1],
                        detectarIntencao(req[r].message.valor))
  ELSE IF req[r].ramo = "selecao"
    THEN resumoDoParceiro(<<req[r].conversaAtual.parceiros_sugeridos[
                              extrairIndiceEscolhido(req[r].message.valor) + 1]>>)
  ELSE req[r].textoIA

\* C8: a turn in which a side write failed (and no primary read did) answers 200 with
\* the reply of the failure-free turn, and with interactionId null when the insert
\* into interacoes failed.
C8_SideWrites ==
  \A r \in Reqs :
    (/\ Terminou(r)
     /\ req[r].falhaSecundaria
     /\ ~req[r].falhaPrimaria
     /\ detectarIntencao(req[r].message.valor) # "roteiro") =>
      /\ req[r].resposta.status = 200
      /\ req[r].resposta.reply = RespostaSemFalha(r)
      /\ disableGemini /\ req[r].ramo = "livre" => req[r].resposta.reply = fallbackDe(req[r])
      /\ ~req[r].interacaoGravada => req[r].resposta.interactionId = 0

\* a free-form turn answered 200 although the insert into interacoes failed
C8_Witness ==
  \E r \in Reqs :
    /\ Terminou(r)
    /\ req[r].ramo = "livre"
    /\ req[r].falhaSecundaria
    /\ req[r].insercoesDeInteracao = 1
    /\ ~req[r].interacaoGravada
    /\ req[r].resposta.status = 200
    /\ req[r].resposta.interactionId = 0

\* C9: whenever the database operation of a conversation-state write fails, by an error
\* result or by throwing, the payload is in memoriaConversas under the conversation id.
C9_AsStated ==
  \A r \in Reqs :
    req[r].escrita.feita /\ req[r].escrita.resultado # "ok" =>
      LET m == memoriaConversas[req[r].escrita.conversationId]
          p == req[r].escrita.payload
      IN /\ m.existe
         /\ m.parceiro_em_foco = p.parceiro_em_foco
         /\ p.temSugeridos => m.parceiros_sugeridos = p.parceiros_sugeridos

\* C10: a roteiro message to a known region is answered 200, and the turn stores the
\* found items as suggestions and one of them (or null) as focus.
C10_AsStated ==
  \A r \in Reqs :
    (/\ Terminou(r)
     /\ req[r].regiao # 0
     /\ ~req[r].falhaPrimaria
     /\ detectarIntencao(req[r].message.valor) = "roteiro") =>
      /\ req[r].resposta.status = 200
      /\ req[r].escritasDeConversa >= 1
      /\ ConversaNaOrigem(r).parceiros_sugeridos = req[r].itens
      /\ \/ ConversaNaOrigem(r).parceiro_em_foco = SemFoco /\ Len(req[r].itens) = 0
         \/ \E k \in 1..Len(req[r].itens) :
              ConversaNaOrigem(r).parceiro_em_foco = <<req[r].itens[k]>>

\* ------------------------------------------------------------------------
\* Properties of the region scope, the item query and the selection
\* ------------------------------------------------------------------------
\* the ids of the cities of a region
CidadesDaRegiao(regiaoId) ==
  {cidades[k].id : k \in {j \in 1..Len(cidades) : cidades[j].regiao_id = regiaoId}}

\* the item a finished turn answered from or stored as focus (SemFoco: none)
ItemDoTurno(r) ==
  IF req[r].ramo = "followup" THEN req[r].conversaAtual.parceiro_em_foco
  ELSE IF req[r].ramo = "selecao"
    THEN <<req[r].conversaAtual.parceiros_sugeridos[
             extrairIndiceEscolhido(req[r].message.valor) + 1]>>
  ELSE req[r].parceiroEmFoco

\* C11: the item a turn addressed to region R answers from or stores as focus belongs
\* to a city of R, also when the conversation id was created by a turn to another region.
C11_AsStated ==
  \A r \in Reqs :
    (Terminou(r) /\ req[r].resposta.status = 200 /\ ItemDoTurno(r) # SemFoco) =>
      ItemDoTurno(r)[1].cidade_id \in CidadesDaRegiao(req[r].regiao)

\* the item query of the turn has returned its rows
ConsultouItens(r) ==
  /\ req[r].buscouItens
  /\ \/ req[r].pc \in {"dicas", "atualizar", "gerar", "ler_view", "gravar_view", "evento_view",
                       "interacao"}
     \/ Terminou(r) /\ req[r].ramo = "livre"

\* the cities of the turn's region whose name or slug occurs in the message, in table order
CidadesNoTexto(r) ==
  LET t == toLowerCase(req[r].message.valor)
  IN SelectSeq(cidades, LAMBDA c :
       /\ c.regiao_id = req[r].regiao
       /\ includes(t, toLowerCase(c.nome)) \/ includes(t, toLowerCase(c.slug)))

\* the cities of the turn's region with the slug the analysis suggested
CidadesSugeridas(r) ==
  SelectSeq(cidades, LAMBDA c :
    c.regiao_id = req[r].regiao /\ c.slug = req[r].analise.cidadeSlugSugerida)

\* every returned item is active and of a city of the set
SoAtivosDe(itens, alvo) ==
  \A k \in 1..Len(itens) : itens[k].ativo /\ itens[k].cidade_id \in alvo

\* the cidadeIds the query of the turn was built with
AlvoDaConsulta(r) == cidadeIdsDe(req[r].cidadeDetectada, req[r].cidades)

\* C12 as stated: the item query returns only active items of the target set, which is
\* {the first city of the region whose name or slug occurs in the message} and, when no
\* city occurs in the message, the ids of all cities of the region.
C12_AsStated ==
  \A r \in Reqs :
    ConsultouItens(r) =>
      LET alvo == IF Len(CidadesNoTexto(r)) > 0 THEN {CidadesNoTexto(r)[1].id}
                  ELSE CidadesDaRegiao(req[r].regiao)
      IN AlvoDaConsulta(r) = alvo /\ SoAtivosDe(req[r].itens, alvo)

\* C12 amended: the item query returns only active items of the target set, which is
\* {the first city of the region whose name or slug occurs in the message}; when no city
\* occurs in the message, {the city of the region whose slug the analysis suggested}; and
\* when there is neither, the ids of all cities of the region.
C12_TargetSet ==
  \A r \in Reqs :
    ConsultouItens(r) =>
      LET alvo == IF Len(CidadesNoTexto(r)) > 0 THEN {CidadesNoTexto(r)[1].id}
                  ELSE IF Len(CidadesSugeridas(r)) > 0 THEN {CidadesSugeridas(r)[1].id}
                  ELSE CidadesDaRegiao(req[r].regiao)
      IN AlvoDaConsulta(r) = alvo /\ SoAtivosDe(req[r].itens, alvo)

\* "pizza em Búzios" has been answered from the active items of Búzios alone
C12_Witness ==
  \E r \in Reqs :
    /\ Terminou(r)
    /\ ConsultouItens(r)
    /\ req[r].message = Texto(<<"p","i","z","z","a"," ","e","m"," ","B","ú","z","i","o","s">>)
    /\ AlvoDaConsulta(r) = {1}
    /\ Len(req[r].itens) = 2
    /\ \E k \in 1..Len(parceiros) : ~parceiros[k].ativo /\ parceiros[k].cidade_id = 1

\* ------------------------------------------------------------------------
\* Properties of the helper functions
\* ------------------------------------------------------------------------
Rotulos == {"roteiro", "horario", "endereco", "contato", "fotos", "preco", "dica", "nenhuma"}

\* some pattern of the list is a substring of the normalized text
TemPadrao(texto, padroes) ==
  \E k \in 1..Len(padroes) : includes(normalizar(texto), padroes[k])

\* C13: detectarIntencao returns one label of the fixed set: roteiro if an itinerary
\* phrase is a substring of the normalized text; otherwise the first of horario,
\* endereco, contato, fotos, preco one of whose patterns is a substring; otherwise dica
\* if a tip trigger is a substring; otherwise nenhuma.
C13_Intencao ==
  fn.op = "detectarIntencao" =>
    /\ fn.intencao \in Rotulos
    /\ fn.intencao =
         (IF TemPadrao(fn.texto, padroesRoteiro) THEN "roteiro"
          ELSE IF TemPadrao(fn.texto, padroes_horario) THEN "horario"
          ELSE IF TemPadrao(fn.texto, padroes_endereco) THEN "endereco"
          ELSE IF TemPadrao(fn.texto, padroes_contato) THEN "contato"
          ELSE IF TemPadrao(fn.texto, padroes_fotos) THEN "fotos"
          ELSE IF TemPadrao(fn.texto, padroes_preco) THEN "preco"
          ELSE IF TemPadrao(fn.texto, dicasGatilhos) THEN "dica"
          ELSE "nenhuma")

\* a text with a photo word after a price word or a tip trigger has been labelled fotos
C13_Witness ==
  /\ fn.op = "detectarIntencao"
  /\ fn.texto \in {Frase(<<"p","r","e","ç","o">>, <<"f","o","t","o","s">>), Frase(<<"c","a","f","é">>, <<"f","o","t","o","s">>)}
  /\ fn.intencao = "fotos"

\* the text holds one of the markers "opção", "número", "#" followed by a number
TextoComMarcador == fn.op = "extrairIndiceEscolhido" /\ fn.marcador # <<>>

\* C14: for a text that contains an explicit marker followed by a number N >= 1,
\* extrairIndiceEscolhido returns N - 1, whatever surrounds the marker.
C14_AsStated == (TextoComMarcador /\ fn.numero >= 1) => fn.indice = fn.numero - 1

\* the number the text is parsed to: the one after the leftmost marker, else the
\* leftmost standalone one (SemIndice: none)
NumeroLido(texto) ==
  IF NumeroM1(normalizar(texto)) # SemIndice THEN NumeroM1(normalizar(texto))
  ELSE NumeroM2(normalizar(texto))

\* C18: extrairIndiceEscolhido returns null for a text whose parsed number gives a
\* negative index (a marker followed by 0): it never returns an index for such a text.
C18_AsStated ==
  (fn.op = "extrairIndiceEscolhido" /\ NumeroLido(fn.texto) = 0) => fn.indice = SemIndice

\* the bigram of s at position i
Par(s, i) == <<s[i], s[i + 1]>>

\* the Dice similarity of two fields as a fraction: twice the number of bigrams the
\* two share, counted with multiplicity, over the number of bigrams of both
Semelhanca(a, b) ==
  LET sa == normalizarCampo(a)
      sb == normalizarCampo(b)
      IA == 1..(Len(sa) - 1)
      IB == 1..(Len(sb) - 1)
      comuns ==
        Cardinality({ i \in IB :
          Cardinality({j \in IB : j <= i /\ Par(sb, j) = Par(sb, i)})
            <= Cardinality({j \in IA : Par(sa, j) = Par(sb, i)}) })
  IN IF IA = {} \/ IB = {} THEN [num |-> 0, den |-> 1]
     ELSE [num |-> 2 * comuns, den |-> Cardinality(IA) + Cardinality(IB)]

\* the larger of the similarities of the text to the name and to the category of p
Nota(texto, p) ==
  LET n == Semelhanca(texto, p.nome)
      c == Semelhanca(texto, p.categoria)
  IN IF c.num * n.den > n.num * c.den THEN c ELSE n

\* the text and the name, or the text and the non-empty category, of p contain one another
CasaPorSubtexto(texto, p) ==
  LET t == normalizar(texto)
      nome == normalizarCampo(p.nome)
      cat == normalizarCampo(p.categoria)
  IN \/ includes(t, nome) \/ includes(nome, t)
     \/ Len(cat) > 0 /\ (includes(t, cat) \/ includes(cat, t))

\* the text holds a synonym that the category of p holds or is part of
CasaPorSinonimo(texto, p) ==
  LET t == normalizar(texto)
      cat == normalizarCampo(p.categoria)
  IN /\ Len(cat) > 0
     /\ \E k \in 1..Len(sinonimos) :
          includes(t, sinonimos[k]) /\ (includes(cat, sinonimos[k]) \/ includes(sinonimos[k], cat))

\* the answer of the fuzzy step: a candidate of the highest similarity when that is
\* at least 0.45, none otherwise
RespostaPorSemelhanca ==
  IF \E k \in 1..Len(fn.lista) :
       100 * Nota(fn.texto, fn.lista[k]).num >= 45 * Nota(fn.texto, fn.lista[k]).den
  THEN /\ fn.achado # SemFoco
       /\ \E k \in 1..Len(fn.lista) : fn.achado = <<fn.lista[k]>>
       /\ \A j \in 1..Len(fn.lista) :
            Nota(fn.texto, fn.lista[j]).num * Nota(fn.texto, fn.achado[1]).den
              <= Nota(fn.texto, fn.achado[1]).num * Nota(fn.texto, fn.lista[j]).den
  ELSE fn.achado = SemFoco

\* C15 as stated: when no candidate matches the text by name or category substring,
\* tentarAcharParceiroPorNomeOuCategoria returns the candidate with the highest bigram
\* Dice similarity if that maximum is >= 0.45, and null if it is below 0.45.
C15_AsStated ==
  ( /\ fn.op = "tentarAcharParceiroPorNomeOuCategoria"
    /\ \A k \in 1..Len(fn.lista) : ~CasaPorSubtexto(fn.texto, fn.lista[k]) )
  => RespostaPorSemelhanca

\* C15 amended: when no candidate matches the text by name or category substring, nor
\* through a category synonym that the text holds, the function returns the candidate
\* with the highest bigram Dice similarity if that maximum is >= 0.45, and null if it
\* is below 0.45.
C15_Fuzzy ==
  ( /\ fn.op = "tentarAcharParceiroPorNomeOuCategoria"
    /\ \A k \in 1..Len(fn.lista) :
         ~CasaPorSubtexto(fn.texto, fn.lista[k]) /\ ~CasaPorSinonimo(fn.texto, fn.lista[k]) )
  => RespostaPorSemelhanca

\* a misspelt category has been matched by similarity alone, among several candidates
C15_Witness ==
  /\ fn.op = "tentarAcharParceiroPorNomeOuCategoria"
  /\ fn.texto = <<"p","i","z","a","r","i","a">>
  /\ Len(fn.lista) = 3
  /\ \A k \in 1..Len(fn.lista) :
       ~CasaPorSubtexto(fn.texto, fn.lista[k]) /\ ~CasaPorSinonimo(fn.texto, fn.lista[k])
  /\ fn.achado # SemFoco
  /\ fn.achado[1].id = 4

\* two entries with the same case-insensitive (name, category, address) triple
MesmaTripla(x, p) ==
  /\ toLowerCase(OuPadrao(x.nome, <<>>)) = toLowerCase(OuPadrao(p.nome, <<>>))
  /\ toLowerCase(OuPadrao(x.categoria, <<>>)) = toLowerCase(OuPadrao(p.categoria, <<>>))
  /\ toLowerCase(OuPadrao(x.endereco, <<>>)) = toLowerCase(OuPadrao(p.endereco, <<>>))

\* C16: the merged result list of the item search never contains two entries with the
\* same case-insensitive (name, category, address) triple, whether they come from the
\* name/category wildcard query or from the per-term tag queries.
C16_AsStated ==
  fn.op = "buscarItens" =>
    \A i \in 1..Len(fn.lista) : \A j \in 1..Len(fn.lista) :
      i # j => ~MesmaTripla(fn.lista[i], fn.lista[j])

\* the turn has loaded a conversation with candidates and its message asks for no detail
TurnoComCandidatos(r) ==
  /\ Terminou(r)
  /\ Carregou(r)
  /\ Len(req[r].conversaAtual.parceiros_sugeridos) > 0
  /\ detectarIntencao(req[r].message.valor) = "nenhuma"

\* the candidate the ordinal extractor gives or, when its index is not inside the
\* list, the one the fuzzy matcher gives (none: both fail)
EscolhidoDe(r) ==
  LET lista == req[r].conversaAtual.parceiros_sugeridos
      idx == extrairIndiceEscolhido(req[r].message.valor)
  IN IF idx \in 0..(Len(lista) - 1) THEN <<lista[idx + 1]>>
     ELSE tentarAcharParceiroPorNomeOuCategoria(req[r].message.valor, lista)

\* C17: when candidates exist and the intent is nenhuma, the turn tries the ordinal
\* extractor and then the fuzzy matcher over the candidates; an item that either
\* yields becomes the focus and its summary is returned in that turn, and only when
\* both fail does the turn continue to a fresh search.
C17_AsStated ==
  \A r \in Reqs :
    TurnoComCandidatos(r) =>
      IF EscolhidoDe(r) # SemFoco
        THEN /\ req[r].resposta.status = 200
             /\ req[r].resposta.reply = resumoDoParceiro(EscolhidoDe(r))
             /\ FocoGuardado(req[r].conversationId, EscolhidoDe(r)[1])
             /\ ~req[r].buscouItens
      ELSE req[r].ramo # "selecao"

\* the conversation state in the store that took the write of the turn: the table, or
\* the map when the database write failed
EstadoGuardado(r) ==
  IF req[r].escrita.resultado = "ok" THEN conversas[req[r].escrita.conversationId]
  ELSE memoriaConversas[req[r].escrita.conversationId]

\* the turn has just made the conversation write of a fresh search (step 11); no later
\* step of the turn writes the conversation again
EscreveuBusca(r) == req[r].escrita.feita /\ req[r].escrita.payload.temSugeridos

\* C19: after the conversation write of a fresh-search turn, the conversation state held
\* by the store that took the write has suggestions equal to the merged result list
\* and focus equal to the first item of that list, and focus null when the list is
\* empty, even if the conversation had a focus before.
C19_AsStated ==
  \A r \in Reqs :
    EscreveuBusca(r) =>
      /\ EstadoGuardado(r).existe
      /\ EstadoGuardado(r).parceiros_sugeridos = req[r].itens
      /\ EstadoGuardado(r).parceiro_em_foco =
           (IF Len(req[r].itens) > 0 THEN <<req[r].itens[1]>> ELSE SemFoco)

\* the slug of the first city of the list whose lowercased name or slug occurs in the
\* lowercased text (NULO: none)
PrimeiraCidadeNoTexto(texto, cids) ==
  LET ocorre(k) == \/ includes(toLowerCase(texto), toLowerCase(cids[k].nome))
                   \/ includes(toLowerCase(texto), toLowerCase(cids[k].slug))
  IN IF \E k \in 1..Len(cids) : ocorre(k)
       THEN cids[CHOOSE k \in 1..Len(cids) : ocorre(k) /\ \A j \in 1..(k - 1) : ~ocorre(j)].slug
     ELSE NULO

\* no enrichment: companhia, vibe and orcamento null, palavrasChave empty
SemEnriquecimento(a) ==
  /\ a.companhia = NULO
  /\ a.vibe = NULO
  /\ a.orcamento = NULO
  /\ a.palavrasChave = <<>>

\* C20: analisarEntradaUsuario never throws: when the model call fails or its output is
\* not parsable JSON it returns the original text with companhia, vibe, orcamento and
\* cidadeSlugSugerida null and palavrasChave empty; with the model disabled it returns
\* the original text, cidadeSlugSugerida = slug of the first known city whose name or
\* slug occurs in the lowercased text (null if none), and the other fields null/empty.
C20_NuncaLanca ==
  fn.op = "analisarEntradaUsuario" =>
    /\ ~fn.lancou
    /\ (~fn.desligado /\ fn.saida \in {"falha", "invalido"}) =>
         /\ fn.analise.corrigido = fn.texto
         /\ fn.analise.cidadeSlugSugerida = NULO
         /\ SemEnriquecimento(fn.analise)
    /\ fn.desligado =>
         /\ fn.analise.corrigido = fn.texto
         /\ fn.analise.cidadeSlugSugerida = PrimeiraCidadeNoTexto(fn.texto, fn.cids)
         /\ SemEnriquecimento(fn.analise)

\* the call of the model was rejected and the analysis came back without enrichment
C20_Witness ==
  /\ fn.op = "analisarEntradaUsuario"
  /\ ~fn.desligado
  /\ fn.saida = "falha"
  /\ fn.texto = <<"p","i","z","z","a"," ","e","m"," ","B","ú","z","i","o","s">>
  /\ fn.analise.corrigido = fn.texto
  /\ ~fn.lancou

\* ------------------------------------------------------------------------
\* Claims about overlapping requests, the admin routes and the model calls
\* ------------------------------------------------------------------------
\* the candidate a selection turn has resolved its message to, in the list it loaded
EscolhidoNaLeitura(r) ==
  req[r].conversaAtual.parceiros_sugeridos[extrairIndiceEscolhido(req[r].message.valor) + 1]

\* C21: the conversation read-modify-write of a chat turn is not atomic: a selection or
\* follow-up is resolved against the focus and suggestions the request loaded at
\* step 5, whatever another request carrying the same conversation id has stored since
\* (C21_Witness is the interleaving in which the list had been replaced and the later
\* write overwrote the earlier one).
C21_NaoAtomico ==
  \A r \in Reqs :
    /\ (Terminou(r) /\ req[r].ramo = "selecao") =>
         req[r].resposta.reply = resumoDoParceiro(<<EscolhidoNaLeitura(r)>>)
    /\ (Terminou(r) /\ req[r].ramo = "followup") =>
         includes(req[r].resposta.reply, req[r].conversaAtual.parceiro_em_foco[1].nome)

\* one request has replaced the suggestions of the conversation by a fresh search
\* after the other had loaded them; the other resolved its selection against the list
\* it had loaded, and its write of the focus overwrote the focus of the search
C21_Witness ==
  \E r \in Reqs : \E o \in Reqs \ {r} :
    /\ Terminou(r)
    /\ req[r].ramo = "selecao"
    /\ req[o].conversationId = req[r].conversationId
    /\ req[o].buscouItens
    /\ req[o].escritasDeConversa = 1
    /\ conversas[req[r].conversationId].parceiros_sugeridos = req[o].itens
    /\ req[o].itens # req[r].conversaAtual.parceiros_sugeridos
    /\ conversas[req[r].conversationId].parceiro_em_foco = <<EscolhidoNaLeitura(r)>>
    /\ <<EscolhidoNaLeitura(r)>> # req[o].parceiroEmFoco
    /\ \A k \in 1..Len(req[o].itens) : req[o].itens[k] # EscolhidoNaLeitura(r)

\* C22: each external LLM call is attempted once: when the attempt fails the caller
\* degrades to its fallback path, and no second attempt, with the same or with another
\* model, is made for that call.
C22_AsStated == \A c \in Chamadas : Len(geracoes[c].tentados) <= 1

\* C30: once GEMINI_MODEL_RESOLVED has been set to a model name it is never changed to
\* a different name by a later or concurrent call of geminiGenerateWithFallback, and
\* every call that starts after it is set tries only that model.
C30_AsStated ==
  [][ /\ GEMINI_MODEL_RESOLVED # SemModelo => GEMINI_MODEL_RESOLVED' = GEMINI_MODEL_RESOLVED
      /\ \A c \in Chamadas :
           geracoes'[c].resolvidoNoInicio # SemModelo =>
             \A k \in 1..Len(geracoes'[c].tentados) :
               geracoes'[c].tentados[k] = geracoes'[c].resolvidoNoInicio ]_vars

\* the counter rows of fn.tabela whose item is of the requested cities
ViewsDosItensPedidos ==
  SelectSeq(fn.tabela, LAMBDA v :
    \E k \in 1..Len(fn.itens) :
      fn.itens[k].id = v.parceiro_id /\ fn.itens[k].cidade_id \in fn.cidadeIds)

\* C23: top5_parceiros_por_views holds the (up to) five items with the highest view
\* counts among the items of the requested region or city, in descending order of
\* views_total, for any contents of the view-counter table.
C23_AsStated ==
  fn.op = "top5PorViews" =>
    /\ Len(fn.lista) = (IF Len(ViewsDosItensPedidos) < 5 THEN Len(ViewsDosItensPedidos) ELSE 5)
    /\ \A k \in 1..Len(fn.lista) :
         /\ fn.lista[k].parceiro_id = ViewsDosItensPedidos[k].parceiro_id
         /\ fn.lista[k].views_total = ViewsDosItensPedidos[k].views_total

\* C24: read-your-writes on focus: after a selection turn that replied with the summary
\* of item B, the next turn on the same conversation id loads focus = B, for every
\* combination of database success or failure at the selection's write and at the
\* next turn's read.
C24_AsStated ==
  \A r \in Reqs :
    (/\ Terminou(r)
     /\ req[r].ramo = "selecao"
     /\ req[r].resposta.status = 200) =>
      \A o \in {"ok", "err", "throw"} :
        conversaLida(conversas, memoriaConversas, req[r].conversationId, o).parceiro_em_foco
          = <<EscolhidoNaLeitura(r)>>

\* the focus of a stored conversation is null or one of its suggestions
FocoEntreSugeridos(c) ==
  c.existe =>
    \/ c.parceiro_em_foco = SemFoco
    \/ \E k \in 1..Len(c.parceiros_sugeridos) : <<c.parceiros_sugeridos[k]>> = c.parceiro_em_foco

\* C25: in every reachable state and for every conversation, in the database and in the
\* in-memory map, the stored focus is either null or an element of the stored
\* suggestion list.
C25_AsStated ==
  \A id \in ConvIds : FocoEntreSugeridos(conversas[id]) /\ FocoEntreSugeridos(memoriaConversas[id])

\* the turns that have completed the counter write of step 14 for item p: the ones
\* that already logged their "partner_view" event and the ones about to log it
viewsCompletadas(p) ==
  Len(SelectSeq(eventos_analytics,
                LAMBDA e : e.tipo_evento = "partner_view" /\ e.parceiro_id = p))
  + Cardinality({r \in Reqs : req[r].pc = "evento_view" /\ req[r].parceiroEmFoco[1].id = p})

\* the counter value of item p: views_total of its row, zero without a row
viewsGravadas(p) ==
  LET linhas == linhasDeView(parceiro_views, p)
  IN IF Len(linhas) = 0 THEN 0 ELSE linhas[1].views_total

ItensVistos == {parceiro_views[k].parceiro_id : k \in 1..Len(parceiro_views)}
                 \cup {eventos_analytics[k].parceiro_id : k \in 1..Len(eventos_analytics)}

\* C27: when k chat turns have completed the view-counter step for the same item
\* and no database call failed, the item's views_total has grown by exactly k
\* (the table starts empty) and the item has at most one counter row, whatever
\* the interleaving of the turns.
C27_AsStated ==
  \A p \in ItensVistos \ {0} :
    /\ Len(linhasDeView(parceiro_views, p)) <= 1
    /\ viewsGravadas(p) = viewsCompletadas(p)

\* the editable text fields of an item
CamposDeTexto ==
  {"nome", "categoria", "descricao", "beneficio_bepit", "endereco", "contato",
   "horario_funcionamento", "faixa_preco"}

\* row `depois` differs from row `antes` only in fields that body b carries
soMudaOsPresentes(antes, depois, b) ==
  /\ \A c \in CamposDeTexto : b[c] = NULO => depois[c] = antes[c]
  /\ b.tags = ArrNulo => depois.tags = antes.tags
  /\ (b.fotos_parceiros = ArrNulo /\ b.fotos = ArrNulo) => depois.fotos_parceiros = antes.fotos_parceiros
  /\ b.ativo = "ausente" => depois.ativo = antes.ativo

\* a step of PUT /api/admin/parceiros/:id that answered 200
EditouParceiro ==
  /\ turnos' = turnos + 1
  /\ adm'.rota = "PUT /api/admin/parceiros/:id"
  /\ adm'.status = 200

\* C28: PUT /api/admin/parceiros/:id changes only the fields present in the request
\* body: for some body the route accepts, every editable field absent from it,
\* ativo included, has in every row the value it had before the request.
C28_AsStated ==
  [][ EditouParceiro =>
        \E b \in CorposDeParceiro :
          \A k \in 1..Len(parceiros) : soMudaOsPresentes(parceiros[k], parceiros'[k], b) ]_vars

\* C29: the interactionId of a 200 chat response is non-null exactly when an
\* Interaction row for that turn was written successfully.
C29_AsStated ==
  \A r \in Reqs :
    (Terminou(r) /\ req[r].resposta.status = 200) =>
      (req[r].resposta.interactionId # 0 <=> req[r].interacaoGravada)

\* the item with this id is stored with ativo = true
ativoNaTabela(tab, id) == \E k \in 1..Len(tab) : tab[k].id = id /\ tab[k].ativo

\* the items the reply of request q presents
itensDaResposta(q) ==
  IF q.ramo = "selecao"
    THEN {q.conversaAtual.parceiros_sugeridos[extrairIndiceEscolhido(q.message.valor) + 1].id}
  ELSE IF q.ramo = "followup" THEN {q.conversaAtual.parceiro_em_foco[1].id}
  ELSE IF q.ramo = "livre" THEN {q.itens[k].id : k \in 1..Len(q.itens)}
  ELSE {}

\* C26: no chat reply presents an item that is inactive when the reply is sent: once
\* an admin edit has set ativo = false, the selection and follow-up turns that
\* answer afterwards do not return the item.
C26_AsStated ==
  [][ \A r \in Reqs :
        (req[r].pc # "fim" /\ req'[r].pc = "fim" /\ req'[r].resposta.status = 200) =>
          \A id \in itensDaResposta(req'[r]) : ativoNaTabela(parceiros', id) ]_vars
====
